---- MODULE Spec2Model ----
(***************************************************************************)
(* EZ-WATCH alert relay: the Durable Object AlertRelayContainer of         *)
(* cloudflare/worker/src/index.ts, as a state machine.                     *)
(*                                                                         *)
(* One instance ("default", index.ts:606) serves every request.  Its       *)
(* handlers are async functions run on one JavaScript thread; a handler    *)
(* gives up the thread only at an await.  The object is a Durable Object   *)
(* (index.ts:219) and its store is DurableObjectState.storage              *)
(* (index.ts:220): while a handler awaits a storage get/put the runtime's  *)
(* input gate delivers no other event to the object, so the awaits on      *)
(* storage do not let another handler in.  The await on the outbound       *)
(* fetch (index.ts:542) is not a storage operation: while a handler waits  *)
(* for Pushover, other requests are delivered and run.  The variable       *)
(* `running` is the handler that owns the thread (0: none, the object is   *)
(* idle and the next event may be delivered).                              *)
(***************************************************************************)
EXTENDS Integers, Sequences, FiniteSets, TLC

(***************************************************************************)
(* Bounds of the model.                                                    *)
(***************************************************************************)
\* number of POST /v1/events/cv requests of a behaviour
NumReq == 2
\* last second the clock reaches (Date.now() / 1000, counted from 1)
MaxTime == 4

Req == 1..NumReq

VARIABLES
    env,         \* the Env bindings (index.ts:612-623), fixed per deployment
    zonesCache,  \* AlertRelayContainer.zonesCache (index.ts:222)
    storage,     \* DurableObjectState.storage: key -> number
    clock,       \* Math.floor(Date.now() / 1000)
    running,     \* the handler that owns the thread, 0 when the object is idle
    uuids,       \* how many crypto.randomUUID() values were drawn
    req          \* per request: position in handleEvent, locals, response

vars == <<env, zonesCache, storage, clock, running, uuids, req>>

(***************************************************************************)
(* Program constants (index.ts:49-64).                                     *)
(***************************************************************************)
EVENT_TYPES ==
    {"intrusion", "line_cross", "region_entry", "loitering", "face_match",
     "camera_disconnect"}

VENDORS == {"intelbras", "hikvision"}

WEEKDAY_INDEX == <<"sun", "mon", "tue", "wed", "thu", "fri", "sat">>

METRIC_EVENTS_RECEIVED == "metric:events_received:"

METRIC_EVENTS_SUPPRESSED == "metric:events_suppressed:"

METRIC_ALERTS_SENT == "metric:alerts_sent:pushover:"

JsonNull == "null"

Range(s) == {s[i] : i \in DOMAIN s}

Field(rec, name, default) == IF name \in DOMAIN rec THEN rec[name] ELSE default

(***************************************************************************)
(* Schedule evaluation (index.ts:73-146).                                  *)
(* A clock string "HH:MM" is the sequence of its characters; an instant is *)
(* its UTC weekday (index into WEEKDAY_INDEX) and UTC minute of the day.   *)
(***************************************************************************)
Digit(c) ==
    CASE c = "0" -> 0 [] c = "1" -> 1 [] c = "2" -> 2 [] c = "3" -> 3
      [] c = "4" -> 4 [] c = "5" -> 5 [] c = "6" -> 6 [] c = "7" -> 7
      [] c = "8" -> 8 [] c = "9" -> 9 [] OTHER -> -1

IsDigit(c) == Digit(c) >= 0

\* /^(?:[01]\d|2[0-3]):[0-5]\d$/ ; -1 stands for null
parseHourMinute(value) ==
    IF /\ Len(value) = 5
       /\ \/ value[1] \in {"0", "1"} /\ IsDigit(value[2])
          \/ value[1] = "2" /\ value[2] \in {"0", "1", "2", "3"}
       /\ value[3] = ":"
       /\ value[4] \in {"0", "1", "2", "3", "4", "5"}
       /\ IsDigit(value[5])
    THEN (Digit(value[1]) * 10 + Digit(value[2])) * 60
             + Digit(value[4]) * 10 + Digit(value[5])
    ELSE -1

\* The IANA names Intl.DateTimeFormat accepts here, with their UTC offset in
\* minutes; any other name makes the constructor throw a RangeError.
KnownTimezones == {"America/Sao_Paulo", "UTC", "Asia/Tokyo"}

TzOffset(timezone) ==
    CASE timezone = "America/Sao_Paulo" -> -180
      [] timezone = "UTC" -> 0
      [] timezone = "Asia/Tokyo" -> 540

TzThrows(timezone) == timezone \notin KnownTimezones

\* localDayAndMinutes for a timezone that does not throw
localDayAndMinutes(utcDate, timezone) ==
    LET total == utcDate.minutes + TzOffset(timezone)
        shift == IF total < 0 THEN -1 ELSE IF total >= 1440 THEN 1 ELSE 0
        idx   == ((utcDate.day - 1 + shift + 7) % 7) + 1
    IN  [day |-> WEEKDAY_INDEX[idx], minutes |-> (total + 1440) % 1440]

\* the window test with both bounds left out
WindowMatchesOpen(window, local) ==
    LET start == parseHourMinute(window.start)
        end   == parseHourMinute(window.end)
    IN  /\ local.day \in window.days
        /\ start # -1
        /\ end # -1
        /\ IF start <= end
           THEN local.minutes > start /\ local.minutes < end
           ELSE local.minutes > start \/ local.minutes < end

\* the window test with the end bound left out
WindowMatchesHalfOpen(window, local) ==
    LET start == parseHourMinute(window.start)
        end   == parseHourMinute(window.end)
    IN  /\ local.day \in window.days
        /\ start # -1
        /\ end # -1
        /\ IF start <= end
           THEN local.minutes >= start /\ local.minutes < end
           ELSE local.minutes >= start \/ local.minutes < end

WindowMatches(window, local) ==
    LET start == parseHourMinute(window.start)
        end   == parseHourMinute(window.end)
    IN  /\ local.day \in window.days
        /\ start # -1
        /\ end # -1
        /\ IF start <= end
           THEN local.minutes >= start /\ local.minutes <= end
           ELSE local.minutes >= start \/ local.minutes <= end

\* schedule.timezone || defaultTimezone (index.ts:113)
ResolvedTimezone(schedule, defaultTimezone) ==
    IF Field(schedule, "timezone", "") # "" THEN schedule.timezone ELSE defaultTimezone

\* schedule.windows ?? [] (index.ts:114)
WindowsOf(schedule) == Field(schedule, "windows", << >>)

\* the check converting the instant before it looks at the windows
isActiveScheduleThrowsEager(schedule, defaultTimezone) ==
    /\ TzThrows(ResolvedTimezone(schedule, defaultTimezone))
    /\ TzThrows(defaultTimezone)

\* isActiveSchedule throws: with windows, the conversion in the resolved timezone
\* throws and the one in the catch (index.ts:119-120), in the default, throws too
isActiveScheduleThrows(schedule, defaultTimezone) ==
    /\ Len(WindowsOf(schedule)) # 0
    /\ TzThrows(ResolvedTimezone(schedule, defaultTimezone))
    /\ TzThrows(defaultTimezone)

\* the verdict taken from the first window alone
isActiveScheduleFirstWindow(schedule, utcDate, defaultTimezone) ==
    LET timezone == ResolvedTimezone(schedule, defaultTimezone)
        windows  == WindowsOf(schedule)
        local    == IF TzThrows(timezone)
                    THEN localDayAndMinutes(utcDate, defaultTimezone)
                    ELSE localDayAndMinutes(utcDate, timezone)
    IN  IF Len(windows) = 0 THEN TRUE ELSE WindowMatches(windows[1], local)

\* the verdict when isActiveSchedule does not throw
isActiveSchedule(schedule, utcDate, defaultTimezone) ==
    LET timezone == ResolvedTimezone(schedule, defaultTimezone)
        windows  == WindowsOf(schedule)
        local    == IF TzThrows(timezone)
                    THEN localDayAndMinutes(utcDate, defaultTimezone)
                    ELSE localDayAndMinutes(utcDate, timezone)
    IN  IF Len(windows) = 0 THEN TRUE
        ELSE \E i \in 1..Len(windows) : WindowMatches(windows[i], local)

(***************************************************************************)
(* Configuration: the Env bindings and ZONE_CONFIG_JSON.                   *)
(* One zone, as in the README's example (README.md "Zone config format"),  *)
(* with an overnight schedule and gate windows short enough for the clock  *)
(* of the model.  A field that is missing from the JSON is missing from    *)
(* the record.                                                             *)
(***************************************************************************)
AllDays == {"mon", "tue", "wed", "thu", "fri", "sat", "sun"}

OvernightWindow ==
    [days |-> AllDays,
     start |-> <<"1", "8", ":", "0", "0">>,
     end |-> <<"0", "6", ":", "0", "0">>]

\* <<dedupe_window_sec, suppression_window_sec>> of the configured zone
GateWindows == {<<2, 3>>, <<0, 3>>, <<2, 0>>, <<-1, -1>>}

RawZone(d, s) ==
    [zone_id |-> "almoxarifado",
     site_id |-> "resort-a",
     camera_ids |-> <<"cam-001", "cam-002">>,
     severity |-> "high",
     active_schedule |->
         [timezone |-> "America/Sao_Paulo", windows |-> <<OvernightWindow>>],
     alert_destinations |-> <<"whatsapp", "email">>,
     suppression_window_sec |-> s,
     dedupe_window_sec |-> d]

EnvOf(d, s) ==
    [ZONE_CONFIG_JSON |-> [zones |-> <<RawZone(d, s)>>],
     DEFAULT_TIMEZONE |-> "America/Sao_Paulo",
     PUSHOVER_ENABLED |-> "true",
     PUSHOVER_APP_TOKEN |-> "app-token",
     PUSHOVER_USER_KEY |-> "user-key"]

\* The delivery settings: the zone's alert_destinations and the three Pushover
\* variables, "" for one that is not set.
ChannelEnv(destinations, enabled, token, userKey) ==
    [EnvOf(2, 3) EXCEPT
        !.ZONE_CONFIG_JSON =
            [zones |-> <<[RawZone(2, 3) EXCEPT !.alert_destinations = destinations]>>],
        !.PUSHOVER_ENABLED = enabled,
        !.PUSHOVER_APP_TOKEN = token,
        !.PUSHOVER_USER_KEY = userKey]

ChannelEnvs ==
    {ChannelEnv(<<"whatsapp">>, "true", "app-token", "user-key"),
     ChannelEnv(<<"pushover">>, "", "app-token", "user-key"),
     ChannelEnv(<<"email", "pushover">>, "0", "app-token", "user-key"),
     ChannelEnv(<<"email">>, "true", "app-token", "user-key"),
     ChannelEnv(<< >>, "true", "app-token", "user-key"),
     ChannelEnv(<<"whatsapp", "email">>, "false", "app-token", "user-key"),
     ChannelEnv(<<"pushover">>, "true", "", "user-key"),
     ChannelEnv(<<"pushover">>, "true", "app-token", "")}

\* a second zone with a camera of its own named like one of the first zone's
GateZone == [RawZone(2, 3) EXCEPT !.zone_id = "portaria", !.camera_ids = <<"cam-001">>]

ParallelEnv ==
    [EnvOf(2, 3) EXCEPT !.ZONE_CONFIG_JSON = [zones |-> <<RawZone(2, 3), GateZone>>]]

\* a zone written without camera_ids: loadZones gives it the empty list
EmptyZone == [zone_id |-> "patio", site_id |-> "resort-a"]

\* the configuration of the intake checks: the mapped zone and the empty one
IntakeEnv ==
    [EnvOf(2, 3) EXCEPT !.ZONE_CONFIG_JSON = [zones |-> <<RawZone(2, 3), EmptyZone>>]]

\* the defaulting of one zone (index.ts:284-295)
NormalizeZone(zone, e) ==
    [zone_id |-> zone.zone_id,
     site_id |-> zone.site_id,
     camera_ids |-> Field(zone, "camera_ids", << >>),
     severity |-> Field(zone, "severity", "medium"),
     active_schedule |->
         Field(zone, "active_schedule",
               [timezone |-> e.DEFAULT_TIMEZONE, windows |-> << >>]),
     alert_destinations |-> Field(zone, "alert_destinations", <<"whatsapp">>),
     suppression_window_sec |-> Field(zone, "suppression_window_sec", 60),
     dedupe_window_sec |-> Field(zone, "dedupe_window_sec", 30)]

\* loadZones (index.ts:267-303): the cache when it is set, else the parsed and
\* defaulted configuration, which becomes the cache.
NoCache == [zones |-> << >>, loaded |-> FALSE]

loadZones(cache, e) ==
    IF cache.loaded THEN cache
    ELSE [zones |-> [i \in DOMAIN e.ZONE_CONFIG_JSON.zones |->
                        NormalizeZone(e.ZONE_CONFIG_JSON.zones[i], e)],
          loaded |-> TRUE]

\* the lookup falling back to the first configured zone when none has the id
FindZoneOrFirst(zones, zone_id) ==
    LET hits == {i \in DOMAIN zones : zones[i].zone_id = zone_id}
    IN  IF hits = {} THEN 1 ELSE CHOOSE i \in hits : \A j \in hits : i <= j

\* void this.state.storage.put("zone_config_cache_version", "v1") (index.ts:298):
\* the store after loadZones, which writes the marker when it fills the cache
ZONE_CONFIG_CACHE_VERSION == "zone_config_cache_version"

StoreAfterLoad(cache, st) ==
    IF cache.loaded THEN st
    ELSE [k \in DOMAIN st \cup {ZONE_CONFIG_CACHE_VERSION} |->
             IF k = ZONE_CONFIG_CACHE_VERSION THEN "v1" ELSE st[k]]

\* zones.zones.find((item) => item.zone_id === parsed.zone_id): the index of the
\* first zone with that id, 0 when there is none
FindZone(zones, zone_id) ==
    LET hits == {i \in DOMAIN zones : zones[i].zone_id = zone_id}
    IN  IF hits = {} THEN 0 ELSE CHOOSE i \in hits : \A j \in hits : i <= j

(***************************************************************************)
(* Payloads of POST /v1/events/cv.  timestamp_utc is the string's parse:   *)
(* whether new Date() accepts it, and if so its UTC weekday (index into    *)
(* WEEKDAY_INDEX) and minute of the day.  A missing string field is "".    *)
(***************************************************************************)
\* Wed 02:00 UTC = Tue 23:00 in America/Sao_Paulo: inside 18:00-06:00
TsInside == [parses |-> TRUE, day |-> 4, minutes |-> 120]

\* Wed 15:00 UTC = Wed 12:00 in America/Sao_Paulo: outside 18:00-06:00
TsOutside == [parses |-> TRUE, day |-> 4, minutes |-> 900]

TsGarbage == [parses |-> FALSE, day |-> 1, minutes |-> 0]

BasePayload ==
    [vendor |-> "intelbras", event_type |-> "intrusion", camera_id |-> "cam-001",
     camera_name |-> "Almox Entrance", zone_id |-> "almoxarifado",
     timestamp_utc |-> TsInside]

MappedPayloads ==
    {[BasePayload EXCEPT !.event_type = t, !.timestamp_utc = ts] :
        t \in {"intrusion", "line_cross"}, ts \in {TsInside, TsOutside}}
    \cup {[BasePayload EXCEPT !.camera_id = "cam-002"]}

Payloads ==
    MappedPayloads \cup
    {[BasePayload EXCEPT !.camera_id = "cam-999"],
     [BasePayload EXCEPT !.zone_id = "unknown"],
     [BasePayload EXCEPT !.vendor = "acme"],
     [BasePayload EXCEPT !.timestamp_utc = TsGarbage]}

\* A JSON value of an optional field: its typeof, and for a number its value in
\* hundredths.  An absent field is undefined.
Undefined == [type |-> "undefined", value |-> 0]

JsonValue(type, value) == [type |-> type, value |-> value]

\* bodies that are no JSON object: request.json() throws, or gives a scalar
NotJson == [kind |-> "not_json"]

NotObject == [kind |-> "scalar"]

\* well-formed payloads with optional fields at the edges of what is accepted
EdgePayloads ==
    {[BasePayload EXCEPT !.timestamp_utc = TsOutside] @@ ext :
        ext \in {[confidence |-> JsonValue("number", 0)],
                 [confidence |-> JsonValue("number", 100)],
                 [confidence |-> JsonValue("null", 0)],
                 [media_url |-> JsonValue("null", 0)],
                 [raw_payload |-> JsonValue("object", 0)]}}

MalformedPayloads ==
    {NotJson, NotObject,
     [BasePayload EXCEPT !.vendor = "acme"],
     [BasePayload EXCEPT !.vendor = ""],
     [BasePayload EXCEPT !.event_type = "face"],
     [BasePayload EXCEPT !.camera_id = ""],
     [BasePayload EXCEPT !.camera_name = ""],
     [BasePayload EXCEPT !.zone_id = ""],
     [BasePayload EXCEPT !.timestamp_utc = TsGarbage]}
    \cup {BasePayload @@ ext :
              ext \in {[confidence |-> JsonValue("number", 101)],
                       [confidence |-> JsonValue("number", -1)],
                       [confidence |-> JsonValue("string", 0)],
                       [media_url |-> JsonValue("number", 0)],
                       [raw_payload |-> JsonValue("null", 0)],
                       [raw_payload |-> JsonValue("string", 0)]}}

\* what the intake checks are run on: mapped, unmapped, unknown, empty zone,
\* in and out of the schedule, and the malformed bodies
IntakePayloads ==
    {[BasePayload EXCEPT !.zone_id = z, !.camera_id = c, !.timestamp_utc = ts] :
        z \in {"almoxarifado", "patio", "unknown"}, c \in {"cam-001", "cam-999"},
        ts \in {TsInside, TsOutside}}
    \cup EdgePayloads \cup MalformedPayloads

\* the validation of the required fields alone
validateEventRequiredOnly(payload) ==
    /\ Field(payload, "kind", "object") = "object"
    /\ payload.vendor \in VENDORS
    /\ payload.event_type \in EVENT_TYPES
    /\ payload.camera_id # ""
    /\ payload.camera_name # ""
    /\ payload.zone_id # ""
    /\ payload.timestamp_utc.parses

\* validateEvent (index.ts:414-469): whether the payload is accepted.  The first
\* conjunct is also the catch of request.json() (index.ts:333-337), which gives
\* the same answer.
validateEvent(payload) ==
    /\ Field(payload, "kind", "object") = "object"
    /\ payload.vendor \in VENDORS
    /\ payload.event_type \in EVENT_TYPES
    /\ payload.camera_id # ""
    /\ payload.camera_name # ""
    /\ payload.zone_id # ""
    /\ payload.timestamp_utc.parses
    /\ LET confidence == Field(payload, "confidence", Undefined)
       IN  \/ confidence.type \in {"undefined", "null"}
           \/ /\ confidence.type = "number"
              /\ confidence.value >= 0
              /\ confidence.value <= 100
    /\ Field(payload, "media_url", Undefined).type \in {"undefined", "null", "string"}
    /\ Field(payload, "raw_payload", Undefined).type \in {"undefined", "object"}

(***************************************************************************)
(* Storage (DurableObjectState.storage) and the counters.                  *)
(***************************************************************************)
Has(st, key) == key \in DOMAIN st

\* (await storage.get<number>(key)) ?? 0
GetOrZero(st, key) == IF Has(st, key) THEN st[key] ELSE 0

Put(st, key, value) ==
    [k \in DOMAIN st \cup {key} |-> IF k = key THEN value ELSE st[k]]

\* the counter written without reading its current value
incrementCounterFromZero(st, key) == Put(st, key, 1)

\* the increment whose read and write another handler's increment overlaps: with
\* two requests in flight, one of them waiting for Pushover, the update is lost
incrementCounterRacing(st, key) ==
    IF \E r1, r2 \in Req :
           /\ r1 # r2
           /\ req[r1].pc = "fetching"
           /\ req[r2].pc \notin {"idle", "done"}
    THEN Put(st, key, GetOrZero(st, key))
    ELSE Put(st, key, GetOrZero(st, key) + 1)

\* incrementCounter (index.ts:561-564)
incrementCounter(st, key) == Put(st, key, GetOrZero(st, key) + 1)

\* the dedupe key without the event type
dedupeKeyPerCamera(zone, parsed) ==
    "dedupe:" \o zone.zone_id \o ":" \o parsed.camera_id

\* index.ts:373
dedupeKey(zone, parsed) ==
    "dedupe:" \o zone.zone_id \o ":" \o parsed.camera_id \o ":" \o parsed.event_type

suppressKey(zone, parsed) ==
    "suppress:" \o zone.zone_id \o ":" \o parsed.camera_id

\* the gate with an inclusive bound: an event exactly `window` seconds later is blocked
GateBlockedInclusive(window, last, nowSec) ==
    window > 0 /\ last > 0 /\ nowSec - last <= window

\* the gate with an inclusive bound and no test of the window's sign
GateBlockedAnyWindow(window, last, nowSec) ==
    last > 0 /\ nowSec - last <= window

\* the gate without the test that a record exists (last > 0)
GateBlockedNoRecord(window, last, nowSec) ==
    window > 0 /\ nowSec - last < window

\* the condition of index.ts:377 and of index.ts:387
GateBlocked(window, last, nowSec) ==
    window > 0 /\ last > 0 /\ nowSec - last < window

(***************************************************************************)
(* Responses (jsonResponse, index.ts:66-71).                               *)
(***************************************************************************)
DetailResponse(status, detail) == [http |-> status, body |-> [detail |-> detail]]

StatusResponse(status, reason, event_id) ==
    [http |-> 200,
     body |-> [status |-> status, reason |-> reason, event_id |-> event_id]]

NoResponse == DetailResponse(0, "")

\* handleEvent threw: neither fetch (index.ts:229-265) nor the Worker
\* (index.ts:604-610) catches, and the runtime answers 500
UncaughtException == DetailResponse(500, "uncaught_exception")

\* What sendPushover returns for what the fetch did (index.ts:541-558)
FetchResults == {"ok", "non_2xx", "timeout", "network_error"}

\* the catch without the test of error.name: a timeout reported as any error
SendResultOfAnyError(fetchResult) ==
    IF fetchResult = "ok" THEN [ok |-> TRUE, reason |-> ""]
    ELSE [ok |-> FALSE, reason |-> "pushover_send_failed"]

SendResultOf(fetchResult) ==
    CASE fetchResult = "ok" -> [ok |-> TRUE, reason |-> ""]
      [] fetchResult = "non_2xx" -> [ok |-> FALSE, reason |-> "pushover_send_failed"]
      [] fetchResult = "timeout" -> [ok |-> FALSE, reason |-> "pushover_timeout"]
      [] OTHER -> [ok |-> FALSE, reason |-> "pushover_send_failed"]

\* the checks of sendPushover taking only "pushover" as a destination
DeliveryChannelPushoverOnly(zone, e) ==
    /\ "pushover" \in Range(zone.alert_destinations)
    /\ e.PUSHOVER_ENABLED # "false"
    /\ e.PUSHOVER_APP_TOKEN # ""
    /\ e.PUSHOVER_USER_KEY # ""

\* the checks of sendPushover before it builds the message (index.ts:477-489)
DeliveryChannelConfigured(zone, e) ==
    /\ \/ "pushover" \in Range(zone.alert_destinations)
       \/ "whatsapp" \in Range(zone.alert_destinations)
    /\ e.PUSHOVER_ENABLED # "false"
    /\ e.PUSHOVER_APP_TOKEN # ""
    /\ e.PUSHOVER_USER_KEY # ""

(***************************************************************************)
(* The state of one request.  pc is the await of handleEvent the request   *)
(* stands before.  payload, zone, nowSec, lastDedupe, lastSuppress, sent   *)
(* and eventId are handleEvent's locals.  The remaining fields are         *)
(* history: what the request found in the store when its schedule was      *)
(* checked (seen), the stages it went through (steps), the keys it wrote   *)
(* with the values (writes) and the counters it incremented (counted).     *)
(***************************************************************************)
NoSeen == [hadDedupe |-> FALSE, dedupeHot |-> FALSE, hadSuppress |-> FALSE,
           suppressHot |-> FALSE]

\* A gate is hot at `now` when its window is positive, its key has a record and
\* less than the window has passed since the recorded instant.
Hot(window, had, last, now) == window > 0 /\ had /\ now - last < window

IdleRequest ==
    [pc |-> "idle", payload |-> BasePayload, zone |-> NormalizeZone(RawZone(0, 0), EnvOf(0, 0)),
     nowSec |-> 0, lastDedupe |-> 0, lastSuppress |-> 0, eventId |-> 0,
     sent |-> SendResultOf("ok"), resp |-> NoResponse,
     seen |-> NoSeen, steps |-> << >>, writes |-> << >>, counted |-> << >>]

Done(r) == req[r].pc = "done"

\* the handler returns `response`: the request is answered and the thread is free
Respond(r, rec, response, st) ==
    /\ req' = [req EXCEPT ![r] = [rec EXCEPT !.pc = "done", !.resp = response]]
    /\ storage' = st
    /\ running' = 0

\* the handler goes on to its next await without giving up the thread
Continue(r, rec, pc, st) ==
    /\ req' = [req EXCEPT ![r] = [rec EXCEPT !.pc = pc]]
    /\ storage' = st
    /\ running' = r

Step(rec, name) == [rec EXCEPT !.steps = Append(@, name)]

Wrote(rec, key, value) == [rec EXCEPT !.writes = Append(@, <<key, value>>)]

Counted(rec, key) == [rec EXCEPT !.counted = Append(@, key)]

(***************************************************************************)
(* handleEvent (index.ts:331-412), one action per await.                   *)
(***************************************************************************)
\* index.ts:332-358: the request is delivered, its body parsed and validated,
\* the received counter incremented, the zone looked up and the camera checked.
\* Requests are numbered in the order they are delivered.
Receive(r, payload) ==
    /\ running = 0
    /\ req[r].pc = "idle"
    /\ IF r = 1 THEN TRUE ELSE req[r - 1].pc # "idle"
    /\ LET rec     == [Step(req[r], "Received") EXCEPT
                          !.payload = payload]
           metric  == METRIC_EVENTS_RECEIVED \o payload.vendor \o ":"
                          \o payload.event_type
           counted == StoreAfterLoad(zonesCache, incrementCounter(storage, metric))
           valid   == Counted(rec, metric)
           zones   == loadZones(zonesCache, env)
           i       == FindZone(zones.zones, payload.zone_id)
       IN  IF ~validateEvent(payload)
           THEN /\ Respond(r, rec, DetailResponse(400, "invalid_payload"), storage)
                /\ UNCHANGED zonesCache
           ELSE /\ zonesCache' = zones
                /\ IF i = 0
                   THEN Respond(r, valid, DetailResponse(400, "unknown_zone"), counted)
                   ELSE IF payload.camera_id \notin Range(zones.zones[i].camera_ids)
                   THEN Respond(r, valid,
                                DetailResponse(400, "camera_not_mapped_to_zone"),
                                counted)
                   ELSE Continue(r, [Step(valid, "PolicyResolved") EXCEPT
                                        !.zone = zones.zones[i]],
                                 "schedule", counted)
    /\ UNCHANGED <<env, clock, uuids>>

DefaultTimezone(e) ==
    IF e.DEFAULT_TIMEZONE # "" THEN e.DEFAULT_TIMEZONE ELSE "America/Sao_Paulo"

\* the schedule check handing an active event straight to the delivery
CheckScheduleSkippingGates(r) ==
    /\ running = r
    /\ req[r].pc = "schedule"
    /\ LET zone == req[r].zone
           rec  == [Step(req[r], "ScheduleChecked") EXCEPT !.nowSec = clock]
       IN  IF isActiveScheduleThrows(zone.active_schedule, DefaultTimezone(env))
           THEN /\ Respond(r, rec, UncaughtException, storage)
                /\ UNCHANGED uuids
           ELSE IF ~isActiveSchedule(zone.active_schedule, req[r].payload.timestamp_utc,
                                     DefaultTimezone(env))
           THEN /\ Respond(r, Counted(rec, METRIC_EVENTS_SUPPRESSED
                                               \o "outside_active_schedule"),
                           StatusResponse("suppressed", "outside_active_schedule",
                                          uuids + 1),
                           incrementCounter(storage,
                               METRIC_EVENTS_SUPPRESSED \o "outside_active_schedule"))
                /\ uuids' = uuids + 1
           ELSE /\ Continue(r, rec, "dispatch", storage)
                /\ UNCHANGED uuids
    /\ UNCHANGED <<env, zonesCache, clock>>

\* index.ts:360-370
CheckSchedule(r) ==
    /\ running = r
    /\ req[r].pc = "schedule"
    /\ LET zone == req[r].zone
           dk   == dedupeKey(zone, req[r].payload)
           sk   == suppressKey(zone, req[r].payload)
           rec  == [Step(req[r], "ScheduleChecked") EXCEPT
                       !.seen = [hadDedupe |-> Has(storage, dk),
                                 dedupeHot |->
                                     Hot(zone.dedupe_window_sec, Has(storage, dk),
                                         GetOrZero(storage, dk), clock),
                                 hadSuppress |-> Has(storage, sk),
                                 suppressHot |->
                                     Hot(zone.suppression_window_sec, Has(storage, sk),
                                         GetOrZero(storage, sk), clock)]]
       IN  IF isActiveScheduleThrows(zone.active_schedule, DefaultTimezone(env))
           THEN /\ Respond(r, rec, UncaughtException, storage)
                /\ UNCHANGED uuids
           ELSE IF ~isActiveSchedule(zone.active_schedule, req[r].payload.timestamp_utc,
                                     DefaultTimezone(env))
           THEN /\ Respond(r, Counted(rec, METRIC_EVENTS_SUPPRESSED
                                               \o "outside_active_schedule"),
                           StatusResponse("suppressed", "outside_active_schedule",
                                          uuids + 1),
                           incrementCounter(storage,
                               METRIC_EVENTS_SUPPRESSED \o "outside_active_schedule"))
                /\ uuids' = uuids + 1
           ELSE /\ Continue(r, rec, "dedupe", storage)
                /\ UNCHANGED uuids
    /\ UNCHANGED <<env, zonesCache, clock>>

\* the dedupe step testing the suppression record first
CheckDedupeAfterSuppression(r) ==
    /\ running = r
    /\ req[r].pc = "dedupe"
    /\ LET zone         == req[r].zone
           nowSec       == clock
           lastDedupe   == GetOrZero(storage, dedupeKey(zone, req[r].payload))
           lastSuppress == GetOrZero(storage, suppressKey(zone, req[r].payload))
           rec          == [Step(req[r], "DedupeChecked") EXCEPT
                               !.nowSec = nowSec, !.lastDedupe = lastDedupe]
       IN  IF ~GateBlocked(zone.suppression_window_sec, lastSuppress, nowSec)
              /\ ~GateBlocked(zone.dedupe_window_sec, lastDedupe, nowSec)
           THEN /\ Continue(r, rec, "suppression", storage)
                /\ UNCHANGED uuids
           ELSE /\ LET reason ==
                           IF GateBlocked(zone.suppression_window_sec, lastSuppress,
                                          nowSec)
                           THEN "suppression_window" ELSE "dedupe_window"
                   IN  Respond(r, Counted(rec, METRIC_EVENTS_SUPPRESSED \o reason),
                               StatusResponse("suppressed", reason, uuids + 1),
                               incrementCounter(storage,
                                   METRIC_EVENTS_SUPPRESSED \o reason))
                /\ uuids' = uuids + 1
    /\ UNCHANGED <<env, zonesCache, clock>>

\* index.ts:372-384: now is read, then the dedupe record
CheckDedupe(r) ==
    /\ running = r
    /\ req[r].pc = "dedupe"
    /\ LET zone       == req[r].zone
           nowSec     == clock
           lastDedupe == GetOrZero(storage, dedupeKey(zone, req[r].payload))
           rec        == [Step(req[r], "DedupeChecked") EXCEPT
                             !.nowSec = nowSec, !.lastDedupe = lastDedupe]
       IN  IF GateBlocked(zone.dedupe_window_sec, lastDedupe, nowSec)
           THEN /\ Respond(r, Counted(rec, METRIC_EVENTS_SUPPRESSED \o "dedupe_window"),
                           StatusResponse("suppressed", "dedupe_window", uuids + 1),
                           incrementCounter(storage,
                               METRIC_EVENTS_SUPPRESSED \o "dedupe_window"))
                /\ uuids' = uuids + 1
           ELSE /\ Continue(r, rec, "suppression", storage)
                /\ UNCHANGED uuids
    /\ UNCHANGED <<env, zonesCache, clock>>

\* the suppression step counting a suppressed event and letting it through
CheckSuppressionCountingOnly(r) ==
    /\ running = r
    /\ req[r].pc = "suppression"
    /\ LET zone         == req[r].zone
           lastSuppress == GetOrZero(storage, suppressKey(zone, req[r].payload))
           rec          == [Step(req[r], "SuppressionChecked") EXCEPT
                               !.lastSuppress = lastSuppress]
       IN  IF GateBlocked(zone.suppression_window_sec, lastSuppress, req[r].nowSec)
           THEN Continue(r, Counted(rec, METRIC_EVENTS_SUPPRESSED
                                             \o "suppression_window"),
                         "dispatch",
                         incrementCounter(storage,
                             METRIC_EVENTS_SUPPRESSED \o "suppression_window"))
           ELSE Continue(r, rec, "dispatch", storage)
    /\ UNCHANGED <<env, zonesCache, clock, uuids>>

\* the suppression step reserving the dedupe key as soon as both gates passed
CheckSuppressionReserving(r) ==
    /\ running = r
    /\ req[r].pc = "suppression"
    /\ LET zone         == req[r].zone
           key          == dedupeKey(zone, req[r].payload)
           lastSuppress == GetOrZero(storage, suppressKey(zone, req[r].payload))
           rec          == [Step(req[r], "SuppressionChecked") EXCEPT
                               !.lastSuppress = lastSuppress]
       IN  IF GateBlocked(zone.suppression_window_sec, lastSuppress, req[r].nowSec)
           THEN /\ Respond(r, Counted(rec, METRIC_EVENTS_SUPPRESSED
                                               \o "suppression_window"),
                           StatusResponse("suppressed", "suppression_window", uuids + 1),
                           incrementCounter(storage,
                               METRIC_EVENTS_SUPPRESSED \o "suppression_window"))
                /\ uuids' = uuids + 1
           ELSE /\ Continue(r, Wrote(rec, key, req[r].nowSec), "dispatch",
                            Put(storage, key, req[r].nowSec))
                /\ UNCHANGED uuids
    /\ UNCHANGED <<env, zonesCache, clock>>

\* index.ts:386-394
CheckSuppression(r) ==
    /\ running = r
    /\ req[r].pc = "suppression"
    /\ LET zone         == req[r].zone
           lastSuppress == GetOrZero(storage, suppressKey(zone, req[r].payload))
           rec          == [Step(req[r], "SuppressionChecked") EXCEPT
                               !.lastSuppress = lastSuppress]
       IN  IF GateBlocked(zone.suppression_window_sec, lastSuppress, req[r].nowSec)
           THEN /\ Respond(r, Counted(rec, METRIC_EVENTS_SUPPRESSED
                                               \o "suppression_window"),
                           StatusResponse("suppressed", "suppression_window", uuids + 1),
                           incrementCounter(storage,
                               METRIC_EVENTS_SUPPRESSED \o "suppression_window"))
                /\ uuids' = uuids + 1
           ELSE /\ Continue(r, rec, "dispatch", storage)
                /\ UNCHANGED uuids
    /\ UNCHANGED <<env, zonesCache, clock>>

\* sendPushover throws while it builds the message: shiftName constructs its
\* formatter with the resolved timezone outside its try (index.ts:172-177, 491, 507)
MessageThrows(zone, defaultTimezone) ==
    TzThrows(ResolvedTimezone(zone.active_schedule, defaultTimezone))

\* the dispatch keeping the thread while it waits for Pushover
DispatchHoldingThread(r) ==
    /\ running = r
    /\ req[r].pc = "dispatch"
    /\ IF ~DeliveryChannelConfigured(req[r].zone, env)
       THEN Respond(r, [Counted(req[r], METRIC_ALERTS_SENT \o "failed") EXCEPT
                           !.sent = [ok |-> FALSE,
                                     reason |-> "no_delivery_channel_configured"]],
                    DetailResponse(502, "no_delivery_channel_configured"),
                    incrementCounter(storage, METRIC_ALERTS_SENT \o "failed"))
       ELSE IF MessageThrows(req[r].zone, DefaultTimezone(env))
       THEN Respond(r, req[r], UncaughtException, storage)
       ELSE /\ req' = [req EXCEPT ![r] = [Step(req[r], "Dispatched") EXCEPT
                                             !.pc = "fetching"]]
            /\ storage' = storage
            /\ running' = r
    /\ UNCHANGED <<env, zonesCache, clock, uuids>>

\* index.ts:396 with sendPushover up to its fetch (index.ts:471-546): without a
\* channel the request fails at once (index.ts:397-400); otherwise the POST is
\* sent and the handler waits for Pushover, leaving the thread to other requests.
Dispatch(r) ==
    /\ running = r
    /\ req[r].pc = "dispatch"
    /\ IF ~DeliveryChannelConfigured(req[r].zone, env)
       THEN Respond(r, [Counted(req[r], METRIC_ALERTS_SENT \o "failed") EXCEPT
                           !.sent = [ok |-> FALSE,
                                     reason |-> "no_delivery_channel_configured"]],
                    DetailResponse(502, "no_delivery_channel_configured"),
                    incrementCounter(storage, METRIC_ALERTS_SENT \o "failed"))
       ELSE IF MessageThrows(req[r].zone, DefaultTimezone(env))
       THEN Respond(r, req[r], UncaughtException, storage)
       ELSE /\ req' = [req EXCEPT ![r] = [Step(req[r], "Dispatched") EXCEPT
                                             !.pc = "fetching"]]
            /\ storage' = storage
            /\ running' = 0
    /\ UNCHANGED <<env, zonesCache, clock, uuids>>

\* the return from the fetch committing the dedupe key whatever the result
FetchReturnCommitting(r, fetchResult) ==
    /\ running = 0
    /\ req[r].pc = "fetching"
    /\ LET sent == SendResultOf(fetchResult)
           key  == dedupeKey(req[r].zone, req[r].payload)
           rec  == [Counted(Step(req[r],
                                 IF sent.ok THEN "DeliveryOk" ELSE "DeliveryFailed"),
                            METRIC_ALERTS_SENT
                                \o (IF sent.ok THEN "success" ELSE "failed"))
                       EXCEPT !.sent = sent]
       IN  IF ~sent.ok
           THEN /\ Respond(r, Wrote(rec, key, req[r].nowSec),
                           DetailResponse(502, sent.reason),
                           Put(incrementCounter(storage, METRIC_ALERTS_SENT \o "failed"),
                               key, req[r].nowSec))
                /\ UNCHANGED uuids
           ELSE /\ Continue(r, [rec EXCEPT !.eventId = uuids + 1], "put_dedupe",
                            incrementCounter(storage, METRIC_ALERTS_SENT \o "success"))
                /\ uuids' = uuids + 1
    /\ UNCHANGED <<env, zonesCache, clock>>

\* the fetch without its AbortSignal: it returns only when Pushover answers
FetchReturnUnbounded(r, fetchResult) ==
    /\ running = 0
    /\ req[r].pc = "fetching"
    /\ fetchResult # "timeout"
    /\ LET sent == SendResultOf(fetchResult)
           rec  == [Counted(Step(req[r],
                                 IF sent.ok THEN "DeliveryOk" ELSE "DeliveryFailed"),
                            METRIC_ALERTS_SENT
                                \o (IF sent.ok THEN "success" ELSE "failed"))
                       EXCEPT !.sent = sent]
       IN  IF ~sent.ok
           THEN /\ Respond(r, rec, DetailResponse(502, sent.reason),
                           incrementCounter(storage, METRIC_ALERTS_SENT \o "failed"))
                /\ UNCHANGED uuids
           ELSE /\ Continue(r, [rec EXCEPT !.eventId = uuids + 1], "put_dedupe",
                            incrementCounter(storage, METRIC_ALERTS_SENT \o "success"))
                /\ uuids' = uuids + 1
    /\ UNCHANGED <<env, zonesCache, clock>>

\* the return from the fetch sending the message again after a failure
FetchReturnRetrying(r, fetchResult) ==
    /\ running = 0
    /\ req[r].pc = "fetching"
    /\ LET sent == SendResultOf(fetchResult)
           rec  == [Counted(Step(req[r],
                                 IF sent.ok THEN "DeliveryOk" ELSE "DeliveryFailed"),
                            METRIC_ALERTS_SENT
                                \o (IF sent.ok THEN "success" ELSE "failed"))
                       EXCEPT !.sent = sent]
       IN  IF ~sent.ok
           THEN /\ Continue(r, rec, "dispatch",
                            incrementCounter(storage, METRIC_ALERTS_SENT \o "failed"))
                /\ UNCHANGED uuids
           ELSE /\ Continue(r, [rec EXCEPT !.eventId = uuids + 1], "put_dedupe",
                            incrementCounter(storage, METRIC_ALERTS_SENT \o "success"))
                /\ uuids' = uuids + 1
    /\ UNCHANGED <<env, zonesCache, clock>>

\* index.ts:547-558 and 397-403: Pushover answered, or the timeout fired
FetchReturn(r, fetchResult) ==
    /\ running = 0
    /\ req[r].pc = "fetching"
    /\ LET sent == SendResultOf(fetchResult)
           rec  == [Counted(Step(req[r],
                                 IF sent.ok THEN "DeliveryOk" ELSE "DeliveryFailed"),
                            METRIC_ALERTS_SENT
                                \o (IF sent.ok THEN "success" ELSE "failed"))
                       EXCEPT !.sent = sent]
       IN  IF ~sent.ok
           THEN /\ Respond(r, rec, DetailResponse(502, sent.reason),
                           incrementCounter(storage, METRIC_ALERTS_SENT \o "failed"))
                /\ UNCHANGED uuids
           ELSE /\ Continue(r, [rec EXCEPT !.eventId = uuids + 1], "put_dedupe",
                            incrementCounter(storage, METRIC_ALERTS_SENT \o "success"))
                /\ uuids' = uuids + 1
    /\ UNCHANGED <<env, zonesCache, clock>>

\* the first put giving up the thread, as an await on anything but the store would
PutDedupeYielding(r) ==
    /\ running = r
    /\ req[r].pc = "put_dedupe"
    /\ LET key == dedupeKey(req[r].zone, req[r].payload)
       IN  /\ req' = [req EXCEPT ![r] = [Wrote(req[r], key, req[r].nowSec) EXCEPT
                                             !.pc = "put_suppress"]]
           /\ storage' = Put(storage, key, req[r].nowSec)
           /\ running' = 0
    /\ UNCHANGED <<env, zonesCache, clock, uuids>>

\* index.ts:404
PutDedupe(r) ==
    /\ running = r
    /\ req[r].pc = "put_dedupe"
    /\ LET key == dedupeKey(req[r].zone, req[r].payload)
       IN  Continue(r, Wrote(req[r], key, req[r].nowSec), "put_suppress",
                    Put(storage, key, req[r].nowSec))
    /\ UNCHANGED <<env, zonesCache, clock, uuids>>

\* index.ts:405-411
PutSuppress(r) ==
    /\ running = r
    /\ req[r].pc = "put_suppress"
    /\ LET key == suppressKey(req[r].zone, req[r].payload)
       IN  Respond(r, Step(Wrote(req[r], key, req[r].nowSec), "Committed"),
                   StatusResponse("sent", JsonNull, req[r].eventId),
                   Put(storage, key, req[r].nowSec))
    /\ UNCHANGED <<env, zonesCache, clock, uuids>>

\* A second passes.  The clock is read once per request (index.ts:372), so a tick
\* while a handler owns the thread is the same as one before it was delivered
\* or after it gave the thread up: ticks are taken between handlers only.
Tick ==
    /\ running = 0
    /\ clock < MaxTime
    /\ clock' = clock + 1
    /\ UNCHANGED <<env, zonesCache, storage, running, uuids, req>>

Init ==
    /\ env \in {EnvOf(w[1], w[2]) : w \in GateWindows}
    /\ zonesCache = NoCache
    /\ storage = [k \in {} |-> 0]
    /\ clock = 1
    /\ running = 0
    /\ uuids = 0
    /\ req = [r \in Req |-> IdleRequest]

Next ==
    \/ \E r \in Req, payload \in Payloads : Receive(r, payload)
    \/ \E r \in Req : CheckSchedule(r)
    \/ \E r \in Req : CheckDedupe(r)
    \/ \E r \in Req : CheckSuppression(r)
    \/ \E r \in Req : Dispatch(r)
    \/ \E r \in Req, fetchResult \in FetchResults : FetchReturn(r, fetchResult)
    \/ \E r \in Req : PutDedupe(r)
    \/ \E r \in Req : PutSuppress(r)
    \/ Tick

Spec == Init /\ [][Next]_vars

(***************************************************************************)
(* Progress.  A handler that owns the thread runs to its next await: the   *)
(* awaits on the store resolve.  A handler waiting for Pushover is resumed *)
(* by the timer of AbortSignal.timeout (index.ts:527-528, 545) at the      *)
(* latest, once no other handler owns the thread.  Nothing obliges         *)
(* Pushover to answer, a request to arrive or a second to pass.            *)
(***************************************************************************)
SyncStep(r) ==
    \/ CheckSchedule(r)
    \/ CheckDedupe(r)
    \/ CheckSuppression(r)
    \/ Dispatch(r)
    \/ PutDedupe(r)
    \/ PutSuppress(r)

Fairness ==
    \A r \in Req : WF_vars(SyncStep(r)) /\ WF_vars(FetchReturn(r, "timeout"))

FairSpec == Spec /\ Fairness

(***************************************************************************)
(* The store failing under a counter.  incrementCounter awaits              *)
(* storage.get and storage.put (index.ts:561-564) and handleEvent awaits   *)
(* incrementCounter (index.ts:344, 362, 378, 388, 398, 403) outside any    *)
(* try: when the store rejects, handleEvent throws at that await.  Two of  *)
(* the six awaits are modelled: the one at receipt and the one after the   *)
(* delivery.                                                               *)
(***************************************************************************)
\* index.ts:344 throws: nothing was written and the zones were not loaded
ReceiveCounterThrows(r, payload) ==
    /\ running = 0
    /\ req[r].pc = "idle"
    /\ IF r = 1 THEN TRUE ELSE req[r - 1].pc # "idle"
    /\ validateEvent(payload)
    /\ Respond(r, Step([Step(req[r], "Received") EXCEPT !.payload = payload],
                       "CounterFailed"),
               UncaughtException, storage)
    /\ UNCHANGED <<env, zonesCache, clock, uuids>>

\* index.ts:398 or 403 throws: the delivery was attempted, neither the counter
\* nor the gate records (index.ts:404-405) are written
FetchReturnCounterThrows(r, fetchResult) ==
    /\ running = 0
    /\ req[r].pc = "fetching"
    /\ LET sent == SendResultOf(fetchResult)
           rec  == [Step(req[r], IF sent.ok THEN "DeliveryOk" ELSE "DeliveryFailed")
                       EXCEPT !.sent = sent]
       IN  Respond(r, Step(rec, "CounterFailed"), UncaughtException, storage)
    /\ UNCHANGED <<env, zonesCache, clock, uuids>>

NextFaulty ==
    \/ Next
    \/ \E r \in Req, payload \in MappedPayloads : ReceiveCounterThrows(r, payload)
    \/ \E r \in Req, fetchResult \in FetchResults :
           FetchReturnCounterThrows(r, fetchResult)

SpecFaulty == Init /\ [][NextFaulty]_vars

(***************************************************************************)
(* handleEvent under each delivery setting, on events of one camera.       *)
(***************************************************************************)
ChannelPayloads ==
    {BasePayload,
     [BasePayload EXCEPT !.event_type = "line_cross"],
     [BasePayload EXCEPT !.timestamp_utc = TsOutside]}

InitChannel ==
    /\ env \in ChannelEnvs
    /\ zonesCache = NoCache
    /\ storage = [k \in {} |-> 0]
    /\ clock = 1
    /\ running = 0
    /\ uuids = 0
    /\ req = [r \in Req |-> IdleRequest]

NextChannel ==
    \/ \E r \in Req, payload \in ChannelPayloads : Receive(r, payload)
    \/ \E r \in Req : CheckSchedule(r)
    \/ \E r \in Req : CheckDedupe(r)
    \/ \E r \in Req : CheckSuppression(r)
    \/ \E r \in Req : Dispatch(r)
    \/ \E r \in Req, fetchResult \in FetchResults : FetchReturn(r, fetchResult)
    \/ \E r \in Req : PutDedupe(r)
    \/ \E r \in Req : PutSuppress(r)
    \/ Tick

SpecChannel == InitChannel /\ [][NextChannel]_vars

(***************************************************************************)
(* handleEvent on events of three (zone, camera) pairs in two zones.       *)
(***************************************************************************)
ParallelPayloads ==
    {BasePayload,
     [BasePayload EXCEPT !.timestamp_utc = TsOutside],
     [BasePayload EXCEPT !.camera_id = "cam-002"],
     [BasePayload EXCEPT !.zone_id = "portaria"]}

InitParallel ==
    /\ env = ParallelEnv
    /\ zonesCache = NoCache
    /\ storage = [k \in {} |-> 0]
    /\ clock = 1
    /\ running = 0
    /\ uuids = 0
    /\ req = [r \in Req |-> IdleRequest]

NextParallel ==
    \/ \E r \in Req, payload \in ParallelPayloads : Receive(r, payload)
    \/ \E r \in Req : CheckSchedule(r)
    \/ \E r \in Req : CheckDedupe(r)
    \/ \E r \in Req : CheckSuppression(r)
    \/ \E r \in Req : Dispatch(r)
    \/ \E r \in Req, fetchResult \in FetchResults : FetchReturn(r, fetchResult)
    \/ \E r \in Req : PutDedupe(r)
    \/ \E r \in Req : PutSuppress(r)
    \/ Tick

SpecParallel == InitParallel /\ [][NextParallel]_vars

(***************************************************************************)
(* The intake of handleEvent (index.ts:332-358) on every kind of body,     *)
(* with two configured zones.  The store outlives a deployment and         *)
(* ZONE_CONFIG_JSON does not: the store may hold the records of a camera   *)
(* that an earlier configuration mapped to the zone.                       *)
(***************************************************************************)
StaleRecords ==
    [k \in {"dedupe:almoxarifado:cam-999:intrusion", "suppress:almoxarifado:cam-999"}
        |-> 1]

InitIntake ==
    /\ env = IntakeEnv
    /\ zonesCache = NoCache
    /\ storage \in {[k \in {} |-> 0], StaleRecords}
    /\ clock = 1
    /\ running = 0
    /\ uuids = 0
    /\ req = [r \in Req |-> IdleRequest]

NextIntake ==
    \/ \E r \in Req, payload \in IntakePayloads : Receive(r, payload)
    \/ \E r \in Req : CheckSchedule(r)
    \/ \E r \in Req : CheckDedupe(r)
    \/ \E r \in Req : CheckSuppression(r)
    \/ \E r \in Req : Dispatch(r)
    \/ \E r \in Req, fetchResult \in FetchResults : FetchReturn(r, fetchResult)
    \/ \E r \in Req : PutDedupe(r)
    \/ \E r \in Req : PutSuppress(r)
    \/ Tick

SpecIntake == InitIntake /\ [][NextIntake]_vars

(***************************************************************************)
(* The schedule check (index.ts:360-364) of one event under each schedule  *)
(* and each DEFAULT_TIMEZONE.  An instant also has its seconds, which the  *)
(* formatter of localDayAndMinutes (index.ts:85-91) does not read.  The    *)
(* local times in the comments are those of America/Sao_Paulo.             *)
(***************************************************************************)
Instant(day, minutes, seconds) ==
    [parses |-> TRUE, day |-> day, minutes |-> minutes, seconds |-> seconds]

ScheduleInstants ==
    {Instant(4, 180, 0),     \* Wed 00:00:00
     Instant(4, 539, 59),    \* Wed 05:59:59
     Instant(4, 540, 0),     \* Wed 06:00:00
     Instant(4, 540, 59),    \* Wed 06:00:59
     Instant(4, 541, 0),     \* Wed 06:01:00
     Instant(4, 720, 0),     \* Wed 09:00:00
     Instant(4, 900, 0),     \* Wed 12:00:00
     Instant(4, 1259, 59),   \* Wed 17:59:59
     Instant(4, 1260, 0),    \* Wed 18:00:00
     Instant(5, 178, 59),    \* Wed 23:58:59
     Instant(5, 179, 0),     \* Wed 23:59:00
     Instant(5, 179, 59),    \* Wed 23:59:59
     Instant(7, 720, 0),     \* Sat 09:00:00
     Instant(1, 120, 0)}     \* Sat 23:00:00

SchedulePayloads == {[BasePayload EXCEPT !.timestamp_utc = ts] : ts \in ScheduleInstants}

Clock(text) == [i \in 1..5 |-> CASE i = 1 -> text[1] [] i = 2 -> text[2] [] i = 3 -> ":"
                                  [] i = 4 -> text[3] [] OTHER -> text[4]]

Window(days, start, end) == [days |-> days, start |-> start, end |-> end]

Weekdays == {"mon", "tue", "wed", "thu", "fri"}

AllDayWindow == Window(AllDays, Clock(<<"0", "0", "0", "0">>), Clock(<<"2", "3", "5", "9">>))

MorningWindow == Window(Weekdays, Clock(<<"0", "6", "0", "1">>), Clock(<<"1", "2", "0", "0">>))

WeekendNightWindow ==
    Window({"sat", "sun"}, Clock(<<"1", "8", "0", "0">>), Clock(<<"0", "6", "0", "0">>))

\* "24:00" is not a clock string of parseHourMinute
UnparsableWindow == Window(AllDays, Clock(<<"0", "0", "0", "0">>), Clock(<<"2", "4", "0", "0">>))

InvalidTimezone == "Mars/Olympus"

Schedules ==
    {[timezone |-> "America/Sao_Paulo", windows |-> << >>],
     [timezone |-> InvalidTimezone, windows |-> << >>],
     [timezone |-> InvalidTimezone],
     [windows |-> <<OvernightWindow>>],
     [timezone |-> "America/Sao_Paulo", windows |-> <<OvernightWindow>>],
     [timezone |-> InvalidTimezone, windows |-> <<OvernightWindow>>],
     [timezone |-> "Asia/Tokyo", windows |-> <<OvernightWindow>>],
     [timezone |-> "America/Sao_Paulo", windows |-> <<AllDayWindow>>],
     [timezone |-> "America/Sao_Paulo", windows |-> <<MorningWindow, WeekendNightWindow>>],
     [timezone |-> "America/Sao_Paulo", windows |-> <<WeekendNightWindow, MorningWindow>>],
     [timezone |-> "America/Sao_Paulo",
      windows |-> <<UnparsableWindow, WeekendNightWindow, MorningWindow>>]}

\* the zone with the schedule, and the zone written without active_schedule
ScheduleZones ==
    {[RawZone(2, 3) EXCEPT !.active_schedule = schedule] : schedule \in Schedules}
    \cup {[k \in DOMAIN RawZone(2, 3) \ {"active_schedule"} |-> RawZone(2, 3)[k]]}

\* DEFAULT_TIMEZONE is "" when the variable is not set
ScheduleEnvs ==
    {[EnvOf(2, 3) EXCEPT !.ZONE_CONFIG_JSON = [zones |-> <<zone>>],
                         !.DEFAULT_TIMEZONE = timezone] :
        zone \in ScheduleZones,
        timezone \in {"America/Sao_Paulo", "UTC", InvalidTimezone, ""}}

InitSchedule ==
    /\ env \in ScheduleEnvs
    /\ zonesCache = NoCache
    /\ storage = [k \in {} |-> 0]
    /\ clock = 1
    /\ running = 0
    /\ uuids = 0
    /\ req = [r \in Req |-> IdleRequest]

NextSchedule ==
    \/ \E payload \in SchedulePayloads : Receive(1, payload)
    \/ \E r \in Req : CheckSchedule(r)
    \/ \E r \in Req : CheckDedupe(r)
    \/ \E r \in Req : CheckSuppression(r)
    \/ \E r \in Req : Dispatch(r)
    \/ \E r \in Req, fetchResult \in FetchResults : FetchReturn(r, fetchResult)
    \/ \E r \in Req : PutDedupe(r)
    \/ \E r \in Req : PutSuppress(r)

SpecSchedule == InitSchedule /\ [][NextSchedule]_vars

(***************************************************************************)
(* The gate records of one zone under the events of its two cameras and of *)
(* two event types, with and without a suppression window.                 *)
(***************************************************************************)
RecordPayloads ==
    {BasePayload,
     [BasePayload EXCEPT !.event_type = "line_cross"],
     [BasePayload EXCEPT !.camera_id = "cam-002"]}

InitRecords ==
    /\ env \in {EnvOf(2, 0), EnvOf(2, 3)}
    /\ zonesCache = NoCache
    /\ storage = [k \in {} |-> 0]
    /\ clock = 1
    /\ running = 0
    /\ uuids = 0
    /\ req = [r \in Req |-> IdleRequest]

NextRecords ==
    \/ \E r \in Req, payload \in RecordPayloads : Receive(r, payload)
    \/ \E r \in Req : CheckSchedule(r)
    \/ \E r \in Req : CheckDedupe(r)
    \/ \E r \in Req : CheckSuppression(r)
    \/ \E r \in Req : Dispatch(r)
    \/ \E r \in Req, fetchResult \in FetchResults : FetchReturn(r, fetchResult)
    \/ \E r \in Req : PutDedupe(r)
    \/ \E r \in Req : PutSuppress(r)
    \/ Tick

SpecRecords == InitRecords /\ [][NextRecords]_vars

(***************************************************************************)
(* The other routes of fetch (index.ts:229-265), next to the events.  Each *)
(* of their handlers awaits the store at most, so it runs from delivery to *)
(* answer in one step; the request's stage history names the route.        *)
(***************************************************************************)
Arrives(r) ==
    /\ running = 0
    /\ req[r].pc = "idle"
    /\ IF r = 1 THEN TRUE ELSE req[r - 1].pc # "idle"

JsonResponse(status, body) == [http |-> status, body |-> body]

\* GET /health/live (index.ts:232-234)
healthLive(r) ==
    /\ Arrives(r)
    /\ Respond(r, Step(req[r], "HealthLive"), JsonResponse(200, [status |-> "ok"]),
               storage)
    /\ UNCHANGED <<env, zonesCache, clock, uuids>>

\* GET /health/ready (index.ts:236-242)
healthReady(r) ==
    /\ Arrives(r)
    /\ LET zones == loadZones(zonesCache, env)
       IN  /\ zonesCache' = zones
           /\ Respond(r, Step(req[r], "HealthReady"),
                      JsonResponse(200, [status |-> "ok",
                                         zones_loaded |-> Len(zones.zones)]),
                      StoreAfterLoad(zonesCache, storage))
    /\ UNCHANGED <<env, clock, uuids>>

\* GET /v1/zones (index.ts:244-250): the body is the serialised policies
listZones(r) ==
    /\ Arrives(r)
    /\ LET zones == loadZones(zonesCache, env)
       IN  /\ zonesCache' = zones
           /\ Respond(r, Step(req[r], "ZonesListed"),
                      JsonResponse(200, [zones |-> zones.zones]),
                      StoreAfterLoad(zonesCache, storage))
    /\ UNCHANGED <<env, clock, uuids>>

\* the keys under the three metric prefixes (index.ts:52-56)
MetricKeys ==
    {METRIC_EVENTS_RECEIVED \o vendor \o ":" \o eventType :
        vendor \in VENDORS, eventType \in EVENT_TYPES}
    \cup {METRIC_EVENTS_SUPPRESSED \o reason :
             reason \in {"outside_active_schedule", "dedupe_window", "suppression_window"}}
    \cup {METRIC_ALERTS_SENT \o status : status \in {"success", "failed"}}

\* GET /metrics (index.ts:566-601): one line per stored counter
metricsResponse(r) ==
    /\ Arrives(r)
    /\ Respond(r, Step(req[r], "MetricsRead"),
               JsonResponse(200, [key \in MetricKeys \cap DOMAIN storage |-> storage[key]]),
               storage)
    /\ UNCHANGED <<env, zonesCache, clock, uuids>>

\* Bodies of POST /v1/health/camera-ping: camera_id as a JSON value (its type and
\* its text), and timestamp_utc as whether it is given, whether new Date()
\* accepts it and its epoch second.
CameraPing(camera_id, given, parses, epoch) ==
    [kind |-> "object", camera_id |-> camera_id,
     timestamp_utc |-> [given |-> given, parses |-> parses, epoch |-> epoch]]

CameraPings ==
    {CameraPing(JsonValue("string", "cam-001"), FALSE, FALSE, 0),
     CameraPing(JsonValue("string", "cam-999"), TRUE, TRUE, 2),
     CameraPing(JsonValue("string", "cam-001"), TRUE, FALSE, 0),
     CameraPing(JsonValue("string", ""), FALSE, FALSE, 0),
     CameraPing(JsonValue("number", "7"), TRUE, TRUE, 2),
     CameraPing(JsonValue("undefined", ""), TRUE, TRUE, 2),
     NotJson,
     NotObject}

\* the checks of handleCameraPing (index.ts:306-323)
ValidPing(ping) ==
    /\ ping.kind = "object"
    /\ ping.camera_id.type = "string"
    /\ ping.camera_id.value # ""
    /\ ping.timestamp_utc.given => ping.timestamp_utc.parses

HEARTBEAT == "heartbeat:"

\* the ping handler that maps a camera it hears from to the first zone
handleCameraPingMapping(r, ping) ==
    /\ Arrives(r)
    /\ IF ~ValidPing(ping)
       THEN /\ Respond(r, Step(req[r], "CameraPing"),
                       DetailResponse(400, "invalid_payload"), storage)
            /\ UNCHANGED zonesCache
       ELSE /\ Respond(r, Step(req[r], "CameraPing"),
                       JsonResponse(200, [status |-> "ok"]),
                       Put(storage, HEARTBEAT \o ping.camera_id.value,
                           IF ping.timestamp_utc.given THEN ping.timestamp_utc.epoch
                           ELSE clock))
            /\ zonesCache' =
                   IF zonesCache.loaded /\ Len(zonesCache.zones) > 0
                   THEN [zonesCache EXCEPT !.zones[1].camera_ids =
                            IF ping.camera_id.value \in Range(@) THEN @
                            ELSE Append(@, ping.camera_id.value)]
                   ELSE zonesCache
    /\ UNCHANGED <<env, clock, uuids>>

\* POST /v1/health/camera-ping (index.ts:305-329)
handleCameraPing(r, ping) ==
    /\ Arrives(r)
    /\ IF ~ValidPing(ping)
       THEN Respond(r, Step(req[r], "CameraPing"),
                    DetailResponse(400, "invalid_payload"), storage)
       ELSE Respond(r, Step(req[r], "CameraPing"),
                    JsonResponse(200, [status |-> "ok"]),
                    Put(storage, HEARTBEAT \o ping.camera_id.value,
                        IF ping.timestamp_utc.given THEN ping.timestamp_utc.epoch
                        ELSE clock))
    /\ UNCHANGED <<env, zonesCache, clock, uuids>>

\* any other method or path (index.ts:264)
notFound(r) ==
    /\ Arrives(r)
    /\ Respond(r, Step(req[r], "NotFound"), DetailResponse(404, "not_found"), storage)
    /\ UNCHANGED <<env, zonesCache, clock, uuids>>

RoutePayloads ==
    {BasePayload,
     [BasePayload EXCEPT !.camera_id = "cam-999"],
     [BasePayload EXCEPT !.zone_id = "patio"],
     [BasePayload EXCEPT !.timestamp_utc = TsGarbage]}

InitRoutes ==
    /\ env = IntakeEnv
    /\ zonesCache = NoCache
    /\ storage = [k \in {} |-> 0]
    /\ clock = 1
    /\ running = 0
    /\ uuids = 0
    /\ req = [r \in Req |-> IdleRequest]

NextRoutes ==
    \/ \E r \in Req : healthLive(r)
    \/ \E r \in Req : healthReady(r)
    \/ \E r \in Req : listZones(r)
    \/ \E r \in Req : metricsResponse(r)
    \/ \E r \in Req, ping \in CameraPings : handleCameraPing(r, ping)
    \/ \E r \in Req : notFound(r)
    \/ \E r \in Req, payload \in RoutePayloads : Receive(r, payload)
    \/ \E r \in Req : CheckSchedule(r)
    \/ \E r \in Req : CheckDedupe(r)
    \/ \E r \in Req : CheckSuppression(r)
    \/ \E r \in Req : Dispatch(r)
    \/ \E r \in Req, fetchResult \in FetchResults : FetchReturn(r, fetchResult)
    \/ \E r \in Req : PutDedupe(r)
    \/ \E r \in Req : PutSuppress(r)
    \/ Tick

SpecRoutes == InitRoutes /\ [][NextRoutes]_vars

(***************************************************************************)
(* Vocabulary of the properties.                                           *)
(***************************************************************************)
\* The outcome of an answered request: the body's status and reason when it
\* has them; a 400 is a rejection and a 5xx a failure, with the detail as reason.
Status(r) ==
    LET resp == req[r].resp
    IN  IF "status" \in DOMAIN resp.body THEN resp.body.status
        ELSE IF resp.http = 400 THEN "rejected" ELSE "failed"

Reason(r) ==
    LET resp == req[r].resp
    IN  IF "status" \in DOMAIN resp.body THEN resp.body.reason ELSE resp.body.detail

Sent(r) == Done(r) /\ Status(r) = "sent"

Suppressed(r, reason) == Done(r) /\ Status(r) = "suppressed" /\ Reason(r) = reason

Went(r, stage) == stage \in Range(req[r].steps)

DedupeKeyOf(r) == dedupeKey(req[r].zone, req[r].payload)

SuppressKeyOf(r) == suppressKey(req[r].zone, req[r].payload)

WroteKey(r, key) == \E i \in DOMAIN req[r].writes : req[r].writes[i][1] = key

Abs(n) == IF n < 0 THEN -n ELSE n

\* every dedupe and suppression key the configured zones and the payloads give
GateKeys ==
    LET zones == loadZones(NoCache, env).zones
    IN  UNION {{dedupeKey(zones[i], p), suppressKey(zones[i], p)} :
                  i \in DOMAIN zones, p \in Payloads}

RecordChanged(key) ==
    \/ Has(storage, key) # Has(storage', key)
    \/ Has(storage, key) /\ Has(storage', key) /\ storage[key] # storage'[key]

\* a step that changes a gate record is a step in which one request logs that write
GateWritesLogged ==
    \A key \in GateKeys :
        RecordChanged(key) =>
            \E r \in Req : req'[r].writes = Append(req[r].writes, <<key, storage'[key]>>)

(***************************************************************************)
(* C1.  N >= 2 identical events within one dedupe window of each other,    *)
(* with dedupe_window_sec > 0, no prior record, an active schedule and     *)
(* deliveries that succeed: exactly one is sent and the others are         *)
(* suppressed{dedupe_window}.                                              *)
(***************************************************************************)
IdenticalBurst ==
    /\ \A r \in Req : Done(r) /\ Went(r, "DedupeChecked")
    /\ \A r \in Req : req[r].payload = req[1].payload
    /\ \A r \in Req : ~Went(r, "DeliveryFailed")
    /\ req[1].zone.dedupe_window_sec > 0
    /\ \A r1, r2 \in Req :
           Abs(req[r1].nowSec - req[r2].nowSec) < req[1].zone.dedupe_window_sec

C1_ExactlyOneSent ==
    IdenticalBurst =>
        /\ Cardinality({r \in Req : Sent(r)}) = 1
        /\ \A r \in Req : Sent(r) \/ Suppressed(r, "dedupe_window")

(***************************************************************************)
(* C2.  For a dedupe key with dedupe_window_sec > 0, no two requests are   *)
(* at the same time past the gates and in dispatch with neither having     *)
(* committed its timestamp.                                                *)
(***************************************************************************)
InDispatch(r) == req[r].pc = "fetching"

C2_DispatchSerializedPerKey ==
    \A r1, r2 \in Req :
        /\ r1 # r2
        /\ InDispatch(r1)
        /\ InDispatch(r2)
        /\ DedupeKeyOf(r1) = DedupeKeyOf(r2)
        => req[r1].zone.dedupe_window_sec <= 0

(***************************************************************************)
(* C3.  With suppression_window_sec = w > 0, two events of the same        *)
(* (zone, camera) that were both sent were decided at least w seconds      *)
(* apart.                                                                  *)
(***************************************************************************)
C3_SentAtLeastWindowApart ==
    \A r1, r2 \in Req :
        /\ r1 # r2
        /\ Sent(r1)
        /\ Sent(r2)
        /\ SuppressKeyOf(r1) = SuppressKeyOf(r2)
        /\ req[r1].zone.suppression_window_sec > 0
        => Abs(req[r1].nowSec - req[r2].nowSec) >= req[r1].zone.suppression_window_sec

(***************************************************************************)
(* C4.  A gate record changes only in the processing of an event whose     *)
(* outcome is sent: a request answered suppressed, rejected or failed has  *)
(* written no key, and every change of a gate record is a logged write of  *)
(* a request.                                                              *)
(***************************************************************************)
NoWriteUnlessSent ==
    \A r \in Req : Done(r) /\ Status(r) # "sent" => req[r].writes = << >>

C4_GateWritesOnlyOnSent == []NoWriteUnlessSent /\ [][GateWritesLogged]_vars

C4_Witness ==
    \E r1, r2 \in Req :
        /\ Sent(r1)
        /\ Len(req[r1].writes) = 2
        /\ Done(r2)
        /\ Status(r2) = "failed"
        /\ DedupeKeyOf(r1) = DedupeKeyOf(r2)

(***************************************************************************)
(* C5.  A request writes a gate key only after its own delivery call has   *)
(* returned success.                                                       *)
(***************************************************************************)
WriteFollowsDelivery ==
    \A r \in Req : req'[r].writes # req[r].writes => Went(r, "DeliveryOk")

C5_NoWriteBeforeDelivery == [][WriteFollowsDelivery /\ GateWritesLogged]_vars

C5_Witness ==
    \E r \in Req :
        /\ req[r].pc = "put_suppress"
        /\ req[r].steps[Len(req[r].steps)] = "DeliveryOk"
        /\ Len(req[r].writes) = 1

(***************************************************************************)
(* C6.  The two writes of a sent outcome are one commit: in no state in    *)
(* which another request can run has a request written its dedupe key and  *)
(* not its suppression key.                                                *)
(***************************************************************************)
C6_CommitIsAtomic ==
    \A r \in Req :
        running # r => (WroteKey(r, DedupeKeyOf(r)) <=> WroteKey(r, SuppressKeyOf(r)))

C6_Witness ==
    \E r1, r2 \in Req :
        /\ req[r1].pc = "put_suppress"
        /\ WroteKey(r1, DedupeKeyOf(r1))
        /\ ~WroteKey(r1, SuppressKeyOf(r1))
        /\ req[r2].pc = "fetching"
        /\ SuppressKeyOf(r1) = SuppressKeyOf(r2)

(***************************************************************************)
(* C7.  Dedupe window w > 0, two identical events one after the other, the *)
(* first sent at t1 and its record the one the second reads at t2: with    *)
(* t2 - t1 < w the second is suppressed{dedupe_window}, with t2 - t1 >= w  *)
(* it passes the dedupe gate.                                              *)
(***************************************************************************)
ReadsRecordOf(r2, r1) ==
    /\ r1 < r2
    /\ Sent(r1)
    /\ Done(r2)
    /\ Went(r2, "DedupeChecked")
    /\ req[r2].payload = req[r1].payload
    /\ req[r2].seen.hadDedupe
    /\ req[r2].lastDedupe = req[r1].nowSec
    /\ req[r1].zone.dedupe_window_sec > 0

C7_DedupeWindow ==
    \A r1, r2 \in Req :
        ReadsRecordOf(r2, r1) =>
            IF req[r2].nowSec - req[r1].nowSec < req[r1].zone.dedupe_window_sec
            THEN Suppressed(r2, "dedupe_window")
            ELSE Went(r2, "SuppressionChecked") /\ ~Suppressed(r2, "dedupe_window")

C7_Witness ==
    \E r1, r2 \in Req :
        /\ ReadsRecordOf(r2, r1)
        /\ req[r2].nowSec - req[r1].nowSec = req[r1].zone.dedupe_window_sec
        /\ Went(r2, "SuppressionChecked")

(***************************************************************************)
(* C8.  A gate whose window is 0 or negative never blocks.                 *)
(***************************************************************************)
C8_ZeroWindowNeverBlocks ==
    \A r \in Req :
        /\ Suppressed(r, "dedupe_window") => req[r].zone.dedupe_window_sec > 0
        /\ Suppressed(r, "suppression_window") => req[r].zone.suppression_window_sec > 0

C8_Witness ==
    \E r \in Req :
        /\ Done(r)
        /\ Went(r, "SuppressionChecked")
        /\ req[r].zone.dedupe_window_sec = 0
        /\ req[r].seen.hadDedupe
        /\ req[r].lastDedupe = req[r].nowSec

(***************************************************************************)
(* C9.  A key without a record passes its gate: the first event of a       *)
(* (zone, camera, event_type) is not suppressed by the dedupe gate, the    *)
(* first event of a (zone, camera) not by the suppression gate.            *)
(***************************************************************************)
C9_NoRecordPasses ==
    \A r \in Req :
        /\ Suppressed(r, "dedupe_window") => req[r].seen.hadDedupe
        /\ Suppressed(r, "suppression_window") => req[r].seen.hadSuppress

C9_Witness ==
    \E r \in Req :
        /\ Sent(r)
        /\ ~req[r].seen.hadDedupe
        /\ ~req[r].seen.hadSuppress
        /\ req[r].zone.dedupe_window_sec > req[r].nowSec
        /\ req[r].zone.suppression_window_sec > req[r].nowSec

(***************************************************************************)
(* C10.  Precedence of the suppressions: outside the schedule the outcome  *)
(* is suppressed{outside_active_schedule} even with both gates hot; inside *)
(* it with both gates hot, suppressed{dedupe_window};                      *)
(* suppressed{suppression_window} only when the dedupe gate passed.        *)
(***************************************************************************)
InSchedule(r) ==
    isActiveSchedule(req[r].zone.active_schedule, req[r].payload.timestamp_utc,
                     DefaultTimezone(env))

C10_SuppressionPrecedence ==
    \A r \in Req :
        Done(r) /\ Went(r, "ScheduleChecked") =>
            LET active == InSchedule(r)
            IN  /\ ~active => Suppressed(r, "outside_active_schedule")
                /\ active /\ req[r].seen.dedupeHot /\ req[r].seen.suppressHot
                       => Suppressed(r, "dedupe_window")
                /\ Suppressed(r, "suppression_window")
                       => active /\ ~req[r].seen.dedupeHot /\ req[r].seen.suppressHot

C10_Witness ==
    \E r \in Req :
        /\ Suppressed(r, "outside_active_schedule")
        /\ req[r].seen.dedupeHot
        /\ req[r].seen.suppressHot

(***************************************************************************)
(* C11.  Policy rejections precede every later check.  A well-formed event *)
(* whose zone_id is the id of no configured zone is answered               *)
(* rejected{unknown_zone}; one whose zone is configured but whose          *)
(* camera_id is not in that zone's camera_ids (every event of a zone       *)
(* without cameras included) is answered rejected{camera_not_mapped_to_    *)
(* zone}.  In both cases the request stopped at receipt: it went through   *)
(* no schedule, gate or delivery stage and wrote nothing, whatever the     *)
(* event's instant and whatever records the store holds.                   *)
(***************************************************************************)
RejectedAtReceipt(r, reason) ==
    /\ Status(r) = "rejected"
    /\ Reason(r) = reason
    /\ req[r].steps = <<"Received">>
    /\ req[r].writes = << >>

C11_PolicyRejectionsFirst ==
    \A r \in Req :
        Done(r) /\ validateEvent(req[r].payload) =>
            LET zones == env.ZONE_CONFIG_JSON.zones
                hits  == {i \in DOMAIN zones : zones[i].zone_id = req[r].payload.zone_id}
                first == CHOOSE i \in hits : \A j \in hits : i <= j
            IN  IF hits = {} THEN RejectedAtReceipt(r, "unknown_zone")
                ELSE req[r].payload.camera_id
                         \notin Range(Field(zones[first], "camera_ids", << >>))
                     => RejectedAtReceipt(r, "camera_not_mapped_to_zone")

\* an unmapped camera with hot records and an instant outside the schedule, an
\* event of the zone without cameras and one of an unknown zone, all rejected
C11_Witness ==
    /\ Has(storage, "suppress:almoxarifado:cam-999")
    /\ \E r \in Req :
           /\ Done(r)
           /\ req[r].payload =
                  [BasePayload EXCEPT !.camera_id = "cam-999", !.timestamp_utc = TsOutside]
           /\ RejectedAtReceipt(r, "camera_not_mapped_to_zone")
    /\ \E r \in Req :
           /\ Done(r)
           /\ validateEvent(req[r].payload)
           /\ req[r].payload.zone_id \in {"patio", "unknown"}
           /\ req[r].resp.http = 400

(***************************************************************************)
(* C12.  A malformed event (a body that is no JSON object, a missing or    *)
(* unknown required field, an unparsable timestamp, an optional field of   *)
(* the wrong type or range) is answered rejected{invalid_payload} every    *)
(* time it is submitted and whatever the store holds, and before any       *)
(* state is touched: the step that receives it changes no record, no       *)
(* counter and not the zone cache, and the request logs no counter and no  *)
(* write.                                                                  *)
(***************************************************************************)
Malformed(r) == req[r].payload \in MalformedPayloads

RejectedMalformed ==
    \A r \in Req :
        Done(r) /\ Malformed(r) =>
            /\ req[r].resp = DetailResponse(400, "invalid_payload")
            /\ RejectedAtReceipt(r, "invalid_payload")
            /\ req[r].counted = << >>

MalformedTouchesNothing ==
    \A r \in Req :
        req[r].pc = "idle" /\ req'[r].pc = "done" /\ req'[r].payload \in MalformedPayloads
            => storage' = storage /\ zonesCache' = zonesCache

C12_MalformedAlwaysRejected == []RejectedMalformed /\ [][MalformedTouchesNothing]_vars

\* the same out-of-range payload submitted twice, the store holding records
C12_Witness ==
    /\ storage = StaleRecords
    /\ \E r1, r2 \in Req :
           /\ r1 # r2
           /\ Done(r1) /\ Done(r2)
           /\ req[r1].payload = BasePayload @@ [confidence |-> JsonValue("number", 101)]
           /\ req[r2].payload = req[r1].payload
           /\ Reason(r1) = "invalid_payload" /\ Reason(r2) = "invalid_payload"

(***************************************************************************)
(* C13.  As claimed: each terminal outcome (sent, every suppressed reason, *)
(* every rejected reason, every failed reason) increments exactly one      *)
(* counter, the one bucketed by the outcome's reason, and no other.        *)
(***************************************************************************)
OutcomeBucket(r) ==
    IF Status(r) = "sent" THEN METRIC_ALERTS_SENT \o "success"
    ELSE IF Status(r) = "suppressed" THEN METRIC_EVENTS_SUPPRESSED \o Reason(r)
    ELSE IF Status(r) = "failed" THEN METRIC_ALERTS_SENT \o Reason(r)
    ELSE "metric:events_rejected:" \o Reason(r)

C13_OneCounterPerOutcome ==
    \A r \in Req : Done(r) => req[r].counted = <<OutcomeBucket(r)>>

(***************************************************************************)
(* C13, as the code has it.  Every well-formed event increments            *)
(* events_received of its vendor and event type at receipt.  Its outcome   *)
(* then increments at most one more counter: suppressed, the               *)
(* events_suppressed counter of its reason; sent, alerts_sent success;     *)
(* failed, alerts_sent failed whatever the reason of the failure;          *)
(* rejected, none.  A malformed event increments no counter.  Every        *)
(* change of a counter is an increment by one made by one request.         *)
(***************************************************************************)
ExpectedCounters(r) ==
    IF ~validateEvent(req[r].payload) THEN << >>
    ELSE <<METRIC_EVENTS_RECEIVED \o req[r].payload.vendor \o ":"
               \o req[r].payload.event_type>>
         \o (CASE Status(r) = "suppressed" -> <<METRIC_EVENTS_SUPPRESSED \o Reason(r)>>
               [] Status(r) = "sent" -> <<METRIC_ALERTS_SENT \o "success">>
               [] Status(r) = "failed" -> <<METRIC_ALERTS_SENT \o "failed">>
               [] OTHER -> << >>)

CountersAsExpected == \A r \in Req : Done(r) => req[r].counted = ExpectedCounters(r)

\* a step changes a key either as a gate record that one request logs as written,
\* or by adding one to it for the one request that logs it as counted (the
\* marker of the zone cache aside); and a request logs as counted only a key
\* that the step adds one to
CountersLogged ==
    /\ \A key \in DOMAIN storage' \ {ZONE_CONFIG_CACHE_VERSION} :
           RecordChanged(key) =>
               \/ \E r \in Req :
                      req'[r].writes = Append(req[r].writes, <<key, storage'[key]>>)
               \/ /\ storage'[key] = GetOrZero(storage, key) + 1
                  /\ \E r \in Req : req'[r].counted = Append(req[r].counted, key)
    /\ \A r \in Req :
           req'[r].counted # req[r].counted =>
               \E key \in DOMAIN storage' \ {ZONE_CONFIG_CACHE_VERSION} :
                   /\ storage'[key] = GetOrZero(storage, key) + 1
                   /\ req'[r].counted = Append(req[r].counted, key)
                   /\ req'[r].writes = req[r].writes

C13_ReceivedPlusOutcomeCounter == []CountersAsExpected /\ [][CountersLogged]_vars

\* an event suppressed by the schedule has incremented two counters, and a
\* delivery that timed out is counted under alerts_sent failed
C13_Witness ==
    \E r1, r2 \in Req :
        /\ Suppressed(r1, "outside_active_schedule")
        /\ req[r1].counted =
               <<METRIC_EVENTS_RECEIVED \o "intelbras:intrusion",
                 METRIC_EVENTS_SUPPRESSED \o "outside_active_schedule">>
        /\ storage[METRIC_EVENTS_RECEIVED \o "intelbras:intrusion"] = 2
        /\ Done(r2)
        /\ Reason(r2) = "pushover_timeout"
        /\ req[r2].counted =
               <<METRIC_EVENTS_RECEIVED \o "intelbras:intrusion",
                 METRIC_ALERTS_SENT \o "failed">>

(***************************************************************************)
(* C14.  A counter update that fails changes nothing for the event: the    *)
(* request whose counter update failed is still answered with the outcome  *)
(* of the pipeline, sent when its delivery succeeded and failed with the   *)
(* delivery's reason when it did not, and never with an exception.         *)
(***************************************************************************)
C14_CounterFailureHarmless ==
    \A r \in Req :
        Done(r) /\ Went(r, "CounterFailed") =>
            /\ req[r].resp # UncaughtException
            /\ Went(r, "DeliveryOk") => Sent(r)
            /\ Went(r, "DeliveryFailed") =>
                   Status(r) = "failed" /\ Reason(r) = req[r].sent.reason

(***************************************************************************)
(* C15.  Every answered request, whatever its outcome, carries a body      *)
(* with a status among sent, suppressed, rejected and failed, a reason     *)
(* that is null exactly when the status is sent, and an event_id that no   *)
(* other request was given.                                                *)
(***************************************************************************)
HasOutcomeBody(r) ==
    LET body == req[r].resp.body
    IN  /\ {"status", "reason", "event_id"} \subseteq DOMAIN body
        /\ body.status \in {"sent", "suppressed", "rejected", "failed"}
        /\ body.reason = JsonNull <=> body.status = "sent"

C15_OutcomeInEveryResponse ==
    \A r1 \in Req :
        Done(r1) =>
            /\ HasOutcomeBody(r1)
            /\ \A r2 \in Req \ {r1} :
                   Done(r2) /\ HasOutcomeBody(r2) =>
                       req[r1].resp.body.event_id # req[r2].resp.body.event_id

(***************************************************************************)
(* C16.  A delivery call that times out ends the event failed with the     *)
(* reason pushover_timeout; a non-2xx answer or any other error ends it    *)
(* failed with pushover_send_failed.  In both cases the step changes no    *)
(* gate record and the request wrote none, so an identical event is not    *)
(* blocked by the dedupe or the suppression gate when the only other       *)
(* requests that wrote nothing are behind it.                              *)
(***************************************************************************)
FailedWith(r, reason) ==
    Done(r) /\ Status(r) = "failed" /\ Reason(r) = reason /\ req[r].resp.http = 502

DeliveryFailureReasons ==
    \A r \in Req :
        /\ FetchReturn(r, "timeout") => FailedWith(r, "pushover_timeout")'
        /\ FetchReturn(r, "non_2xx") \/ FetchReturn(r, "network_error")
               => FailedWith(r, "pushover_send_failed")'
        /\ (\E fetchResult \in FetchResults \ {"ok"} : FetchReturn(r, fetchResult))
               => \A key \in GateKeys : ~RecordChanged(key)

FailedDeliveryLeavesNoTrace ==
    \A r1 \in Req :
        Done(r1) /\ Went(r1, "DeliveryFailed") =>
            /\ req[r1].writes = << >>
            /\ \A r2 \in Req \ {r1} :
                   /\ Done(r2)
                   /\ req[r2].payload = req[r1].payload
                   /\ \A r3 \in Req \ {r2} : req[r3].writes = << >>
                   => Reason(r2) \notin {"dedupe_window", "suppression_window"}

C16_TimeoutDistinctNothingCommitted ==
    []FailedDeliveryLeavesNoTrace /\ [][DeliveryFailureReasons]_vars

\* with both windows positive, the first request timed out and the identical
\* one that was received after it, in the same second, passed both gates
C16_Witness ==
    \E r1, r2 \in Req :
        /\ FailedWith(r1, "pushover_timeout")
        /\ req[r2].pc = "dispatch"
        /\ req[r2].payload = req[r1].payload
        /\ req[r2].nowSec = req[r1].nowSec
        /\ req[r2].zone.dedupe_window_sec > 0
        /\ req[r2].zone.suppression_window_sec > 0

(***************************************************************************)
(* C17.  No retry.  The processing of one event sends at most one message  *)
(* to Pushover, and a failed attempt is the last thing the request does:   *)
(* it is answered failed in the step in which the attempt fails.           *)
(***************************************************************************)
Attempts(r) == Cardinality({i \in DOMAIN req[r].steps : req[r].steps[i] = "Dispatched"})

C17_AtMostOneAttempt ==
    \A r \in Req :
        /\ Attempts(r) <= 1
        /\ Went(r, "DeliveryFailed") =>
               /\ Done(r)
               /\ Status(r) = "failed"
               /\ req[r].steps[Len(req[r].steps)] = "DeliveryFailed"

\* both requests made their one attempt; the first one's failed
C17_Witness ==
    \E r1, r2 \in Req :
        /\ r1 # r2
        /\ Done(r1) /\ Went(r1, "DeliveryFailed") /\ Attempts(r1) = 1
        /\ Sent(r2) /\ Attempts(r2) = 1
        /\ req[r2].payload = req[r1].payload

(***************************************************************************)
(* C18.  When the zone's alert_destinations holds neither "pushover" nor   *)
(* "whatsapp", or PUSHOVER_ENABLED is "false", or the token or the user    *)
(* key is not set, an event that passed the schedule and both gates is     *)
(* answered failed{no_delivery_channel_configured}: no message is sent to  *)
(* Pushover and the request writes no record.  With the channel enabled    *)
(* and both credentials set, a zone that lists only "whatsapp" has its     *)
(* event sent to Pushover.                                                 *)
(***************************************************************************)
PassedGates(r) ==
    Went(r, "SuppressionChecked") /\ ~(Done(r) /\ Status(r) = "suppressed")

ChannelEnabled ==
    /\ env.PUSHOVER_ENABLED # "false"
    /\ env.PUSHOVER_APP_TOKEN # ""
    /\ env.PUSHOVER_USER_KEY # ""

DestinationsOf(r) ==
    LET zones == env.ZONE_CONFIG_JSON.zones
    IN  Range(zones[CHOOSE i \in DOMAIN zones :
                        zones[i].zone_id = req[r].payload.zone_id].alert_destinations)

C18_WhatsappWitness ==
    \E r \in Req :
        /\ Sent(r)
        /\ DestinationsOf(r) = {"whatsapp"}

(***************************************************************************)
(* C19.  Requests on different gate keys run in parallel.  While a request *)
(* is suspended in its delivery call, a request of another camera or       *)
(* another zone is never kept waiting by it: it can be received, and each  *)
(* of its steps up to its answer can be taken, unless a third request      *)
(* holds the thread.  And its outcome is the one it would have had alone:  *)
(* it finds no gate record, and it is suppressed by the schedule, sent or  *)
(* failed as its own instant and its own delivery decide.                  *)
(***************************************************************************)
SamePair(payload1, payload2) ==
    payload1.zone_id = payload2.zone_id /\ payload1.camera_id = payload2.camera_id

HandlerStep(r) ==
    \/ CheckSchedule(r)
    \/ CheckDedupe(r)
    \/ CheckSuppression(r)
    \/ Dispatch(r)
    \/ \E fetchResult \in FetchResults : FetchReturn(r, fetchResult)
    \/ PutDedupe(r)
    \/ PutSuppress(r)

NeverWaitsForDelivery ==
    \A r1, r2 \in Req :
        r1 # r2 /\ req[r1].pc = "fetching" /\ running \in {0, r1, r2} =>
            /\ req[r2].pc = "idle" /\ (r2 = 1 \/ req[r2 - 1].pc # "idle") =>
                   \A payload \in ParallelPayloads :
                       ~SamePair(payload, req[r1].payload) => ENABLED Receive(r2, payload)
            /\ req[r2].pc \notin {"idle", "done"}
                   /\ ~SamePair(req[r2].payload, req[r1].payload)
                   => ENABLED HandlerStep(r2)

AloneOnItsKeys(r) ==
    \A q \in Req \ {r} :
        req[q].pc # "idle" =>
            /\ SuppressKeyOf(q) # SuppressKeyOf(r)
            /\ ~SamePair(req[q].payload, req[r].payload)

OutcomeAsIfAlone ==
    \A r \in Req :
        Done(r) /\ Went(r, "PolicyResolved") /\ AloneOnItsKeys(r) =>
            /\ ~req[r].seen.hadDedupe /\ ~req[r].seen.hadSuppress
            /\ IF ~InSchedule(r) THEN Suppressed(r, "outside_active_schedule")
               ELSE /\ Went(r, "Dispatched")
                    /\ IF req[r].sent.ok THEN Sent(r)
                       ELSE FailedWith(r, req[r].sent.reason)

C19_DifferentKeysInParallel == NeverWaitsForDelivery /\ OutcomeAsIfAlone

\* the first request is still waiting for Pushover, and the second, of the same
\* camera id in the other zone, received a second later, is already sent
C19_Witness ==
    \E r1, r2 \in Req :
        /\ req[r1].pc = "fetching"
        /\ req[r1].payload.zone_id = "almoxarifado"
        /\ req[r2].payload.zone_id = "portaria"
        /\ req[r2].payload.camera_id = req[r1].payload.camera_id
        /\ req[r1].nowSec < req[r2].nowSec
        /\ Sent(r2)

(***************************************************************************)
(* C20.  Every event that is received is answered, and answered once: a    *)
(* request that was received is eventually done, because the delivery      *)
(* call returns at its timeout at the latest, and the answer of a request  *)
(* that is done never changes.                                             *)
(***************************************************************************)
AnswerIsFinal == \A r \in Req : Done(r) => req'[r] = req[r]

C20_EveryEventTerminates ==
    /\ \A r \in Req : (req[r].pc # "idle") ~> Done(r)
    /\ [][AnswerIsFinal]_vars

\* every request is answered, one of them by the timeout of its delivery
C20_Witness ==
    /\ \A r \in Req : Done(r)
    /\ \E r \in Req : FailedWith(r, "pushover_timeout")
    /\ \E r \in Req : Sent(r)

(***************************************************************************)
(* C21..C25: the schedule check.  What isActiveSchedule did for request r  *)
(* is read from what handleEvent did next (index.ts:361-372).              *)
(***************************************************************************)
\* isActiveSchedule returned true: the handler went on to the gates
ScheduleActive(r) ==
    Went(r, "ScheduleChecked") /\ (req[r].pc = "dedupe" \/ Went(r, "DedupeChecked"))

\* isActiveSchedule returned false
ScheduleInactive(r) == Suppressed(r, "outside_active_schedule")

\* isActiveSchedule threw
ScheduleRaised(r) ==
    /\ Went(r, "ScheduleChecked")
    /\ ~Went(r, "DedupeChecked")
    /\ Done(r)
    /\ req[r].resp = UncaughtException

ScheduleOf(r) == req[r].zone.active_schedule

\* C21: a schedule whose window list is empty or absent is active at every
\* instant, whatever its timezone and the default timezone are, valid or not.
C21_EmptyWindowsAlwaysActive ==
    \A r \in Req :
        Went(r, "ScheduleChecked") /\ Field(ScheduleOf(r), "windows", << >>) = << >> =>
            ScheduleActive(r)

\* an event found active under a schedule without a windows field whose timezone
\* and default timezone are both invalid
C21_Witness ==
    /\ ScheduleActive(1)
    /\ "windows" \notin DOMAIN ScheduleOf(1)
    /\ ScheduleOf(1).timezone = InvalidTimezone
    /\ env.DEFAULT_TIMEZONE = InvalidTimezone

\* one of the two conversions of isActiveSchedule succeeds
Convertible(r) ==
    \/ ~TzThrows(ResolvedTimezone(ScheduleOf(r), DefaultTimezone(env)))
    \/ ~TzThrows(DefaultTimezone(env))

\* the weekday and minute of the event of r in the timezone of its schedule, or in
\* the default timezone when that one cannot be used
LocalOf(r) ==
    LET timezone == ResolvedTimezone(ScheduleOf(r), DefaultTimezone(env))
    IN  localDayAndMinutes(req[r].payload.timestamp_utc,
                           IF TzThrows(timezone) THEN DefaultTimezone(env) ELSE timezone)

\* minute m of weekday day lies in the window: between its bounds, both included,
\* when start <= end, and from start on or up to end when the window wraps
Contains(window, day, m) ==
    LET start == parseHourMinute(window.start)
        end   == parseHourMinute(window.end)
    IN  /\ day \in window.days
        /\ start >= 0 /\ end >= 0
        /\ \/ start <= end /\ start <= m /\ m <= end
           \/ start > end /\ (m >= start \/ m <= end)

\* C22: with windows, the schedule is active exactly when one window lists the
\* local weekday and contains the local minute; under the overnight window
\* 18:00-06:00 the minutes 23:59 and 05:59 are active and 12:00 is not.
C22_ActiveIffSomeWindowMatches ==
    \A r \in Req :
        Went(r, "ScheduleChecked") /\ WindowsOf(ScheduleOf(r)) # << >> /\ Convertible(r) =>
            /\ ScheduleActive(r) \/ ScheduleInactive(r)
            /\ ScheduleActive(r) <=>
                   \E i \in DOMAIN WindowsOf(ScheduleOf(r)) :
                       Contains(WindowsOf(ScheduleOf(r))[i], LocalOf(r).day,
                                LocalOf(r).minutes)
            /\ WindowsOf(ScheduleOf(r)) = <<OvernightWindow>> =>
                   /\ LocalOf(r).minutes \in {23 * 60 + 59, 5 * 60 + 59} => ScheduleActive(r)
                   /\ LocalOf(r).minutes = 12 * 60 => ScheduleInactive(r)

\* a Saturday 23:00 event found active by the second of two windows, and not by
\* the first
C22_Witness ==
    /\ ScheduleActive(1)
    /\ WindowsOf(ScheduleOf(1)) = <<MorningWindow, WeekendNightWindow>>
    /\ LocalOf(1) = [day |-> "sat", minutes |-> 23 * 60]

\* the overnight window at 05:59:59 local time, active
C22_OvernightWitness ==
    /\ ScheduleActive(1)
    /\ ScheduleOf(1) = [timezone |-> "America/Sao_Paulo", windows |-> <<OvernightWindow>>]
    /\ req[1].payload.timestamp_utc = Instant(4, 539, 59)

\* the event of r is checked against the single window 00:00-23:59 of every weekday
UnderAllDayWindow(r) ==
    Went(r, "ScheduleChecked") /\ WindowsOf(ScheduleOf(r)) = <<AllDayWindow>>

\* C23 as stated: the window 00:00-23:59 is active before 23:59 and inactive in
\* the final minute of the day, 23:59:00 to 24:00:00.
C23_FinalMinuteExcluded ==
    \A r \in Req :
        UnderAllDayWindow(r) =>
            /\ LocalOf(r).minutes < 23 * 60 + 59 => ScheduleActive(r)
            /\ LocalOf(r).minutes = 23 * 60 + 59 => ScheduleInactive(r)

\* C23: the window 00:00-23:59 is active at every instant of the day, the
\* final minute, 23:59:00 to 23:59:59, included.
C23_AllDayWindowCoversFinalMinute ==
    \A r \in Req : UnderAllDayWindow(r) => ScheduleActive(r)

\* an event at 23:59:59 local time found active under the window 00:00-23:59
C23_Witness ==
    /\ UnderAllDayWindow(1)
    /\ ScheduleActive(1)
    /\ req[1].payload.timestamp_utc = Instant(5, 179, 59)
    /\ LocalOf(1).minutes = 23 * 60 + 59

\* the orderings of a list of windows
Orderings(windows) ==
    LET n == Len(windows)
    IN  {[i \in 1..n |-> windows[p[i]]] :
            p \in {f \in [1..n -> 1..n] : \A i, j \in 1..n : f[i] = f[j] => i = j}}

\* C24: the verdict on an event is the verdict of isActiveSchedule on every
\* reordering of the schedule's windows.
C24_WindowOrderIrrelevant ==
    \A r \in Req :
        Went(r, "ScheduleChecked") /\ Convertible(r) =>
            \A windows \in Orderings(WindowsOf(ScheduleOf(r))) :
                isActiveSchedule([timezone |-> Field(ScheduleOf(r), "timezone", ""),
                                  windows |-> windows],
                                 req[r].payload.timestamp_utc, DefaultTimezone(env))
                    = ScheduleActive(r)

\* a Wednesday 09:00 event found active by the last of three windows
C24_Witness ==
    /\ ScheduleActive(1)
    /\ WindowsOf(ScheduleOf(1)) = <<UnparsableWindow, WeekendNightWindow, MorningWindow>>
    /\ LocalOf(1) = [day |-> "wed", minutes |-> 9 * 60]

\* C25: the schedule check never raises: whatever the timezone of the schedule
\* and the default timezone are, it gives a verdict, active or inactive.
C25_ScheduleNeverRaises ==
    \A r \in Req :
        Went(r, "ScheduleChecked") =>
            /\ ~ScheduleRaised(r)
            /\ ScheduleActive(r) \/ ScheduleInactive(r)

\* the fallback where it works: the timezone of the schedule is invalid, the
\* default is valid, and the verdict is the one of the default timezone
C25_FallbackToValidDefault ==
    \A r \in Req :
        /\ Went(r, "ScheduleChecked")
        /\ TzThrows(ResolvedTimezone(ScheduleOf(r), DefaultTimezone(env)))
        /\ ~TzThrows(DefaultTimezone(env))
        => ScheduleActive(r) =
               isActiveSchedule([timezone |-> "", windows |-> WindowsOf(ScheduleOf(r))],
                                req[r].payload.timestamp_utc, DefaultTimezone(env))

(***************************************************************************)
(* C26: the stages of the pipeline.                                        *)
(***************************************************************************)
StageNames ==
    <<"Received", "PolicyResolved", "ScheduleChecked", "DedupeChecked",
      "SuppressionChecked", "Dispatched", "Committed">>

IsStage(name) == name \in Range(StageNames)

\* the stages request r has reached, in the order it reached them
StagesOf(r) == SelectSeq(req[r].steps, IsStage)

\* the stages reached are the first ones of the list, each once and in its order
StagesInOrder ==
    \A r \in Req : StagesOf(r) = SubSeq(StageNames, 1, Len(StagesOf(r)))

\* a step only adds stages to those a request has reached, and nothing to an
\* answered request
StagesOnlyAdvance ==
    \A r \in Req :
        /\ Len(StagesOf(r)') >= Len(StagesOf(r))
        /\ SubSeq(StagesOf(r)', 1, Len(StagesOf(r))) = StagesOf(r)
        /\ Done(r) => req'[r] = req[r]

\* C26: a request goes through Received, PolicyResolved, ScheduleChecked,
\* DedupeChecked, SuppressionChecked, Dispatched, Committed in that order, none
\* skipped and none entered twice; once it is answered it takes no further step.
C26_StagesStrictlyInOrder == []StagesInOrder /\ [][StagesOnlyAdvance]_vars

\* a sent request that went through all seven stages, next to one rejected at
\* receipt
C26_Witness ==
    /\ Sent(1)
    /\ StagesOf(1) = StageNames
    /\ Done(2)
    /\ StagesOf(2) = <<"Received">>

(***************************************************************************)
(* C27: the zone policies.                                                 *)
(***************************************************************************)
\* no step changes the policies once they are loaded
PoliciesFrozen == zonesCache.loaded => zonesCache' = zonesCache

\* what a request was given as policies is what the cache holds: the zone of an
\* event, the list of GET /v1/zones, the count of GET /health/ready
PoliciesSeenAreCached ==
    \A r \in Req :
        /\ Went(r, "PolicyResolved") =>
               zonesCache.loaded /\ req[r].zone \in Range(zonesCache.zones)
        /\ Went(r, "ZonesListed") =>
               zonesCache.loaded /\ req[r].resp.body.zones = zonesCache.zones
        /\ Went(r, "HealthReady") =>
               zonesCache.loaded /\ req[r].resp.body.zones_loaded = Len(zonesCache.zones)

\* C27: once the zone policies are loaded, no request of any route (event,
\* camera ping, metrics, zone listing, health) changes them, and every request
\* is given the same policies.
C27_ZonePoliciesImmutable == []PoliciesSeenAreCached /\ [][PoliciesFrozen]_vars

\* an event that loaded the policies and was sent, then a zone listing answered
\* from the cache
C27_Witness ==
    /\ Sent(1)
    /\ Went(2, "ZonesListed")
    /\ req[2].resp.body.zones = <<req[1].zone, NormalizeZone(EmptyZone, env)>>

\* a camera ping stored after the policies were loaded
C27_PingWitness ==
    /\ Went(1, "HealthReady")
    /\ Went(2, "CameraPing")
    /\ Has(storage, HEARTBEAT \o "cam-999")
    /\ zonesCache.loaded

(***************************************************************************)
(* C28: what precedes a delivery attempt.                                  *)
(***************************************************************************)
\* sendPushover called fetch for request r
Attempted(r) == Went(r, "Dispatched")

\* the event of r is well formed, of a configured zone and of a camera of that
\* zone, inside the schedule, and neither gate was blocked by the record read
PassedEveryCheck(r) ==
    LET i == FindZone(zonesCache.zones, req[r].payload.zone_id)
    IN  /\ validateEvent(req[r].payload)
        /\ i # 0
        /\ req[r].zone = zonesCache.zones[i]
        /\ req[r].payload.camera_id \in Range(req[r].zone.camera_ids)
        /\ InSchedule(r)
        /\ ~GateBlocked(req[r].zone.dedupe_window_sec, req[r].lastDedupe, req[r].nowSec)
        /\ ~GateBlocked(req[r].zone.suppression_window_sec, req[r].lastSuppress,
                        req[r].nowSec)

\* C28: a delivery is attempted only for an event that passed validation, zone
\* resolution, camera membership, the schedule, the dedupe gate and the
\* suppression gate, in that order; a rejected or suppressed event made no
\* delivery call.
C28_DeliveryOnlyAfterEveryCheck ==
    \A r \in Req :
        /\ Attempted(r) =>
               /\ PassedEveryCheck(r)
               /\ SubSeq(StagesOf(r), 1, 6) = SubSeq(StageNames, 1, 6)
        /\ Done(r) /\ Status(r) \in {"rejected", "suppressed"} => ~Attempted(r)

\* a delivery attempted for the first event; the second, a duplicate, suppressed
\* without one
C28_Witness ==
    /\ Sent(1)
    /\ Attempted(1)
    /\ Suppressed(2, "dedupe_window")
    /\ ~Attempted(2)

(***************************************************************************)
(* C29: the records a sent event sets.  The record of (z, c, e) is the one *)
(* under "dedupe:z:c:e", the record of (z, c) the one under "suppress:z:c".*)
(***************************************************************************)
DedupeRecordOf(r) ==
    "dedupe:" \o req[r].zone.zone_id \o ":" \o req[r].payload.camera_id
        \o ":" \o req[r].payload.event_type

SuppressionRecordOf(r) ==
    "suppress:" \o req[r].zone.zone_id \o ":" \o req[r].payload.camera_id

\* a sent request has written its two records, and both with its own now
SentSetsItsTwoRecords ==
    \A r \in Req :
        Sent(r) => req[r].writes = << <<DedupeRecordOf(r), req[r].nowSec>>,
                                      <<SuppressionRecordOf(r), req[r].nowSec>> >>

\* a step changes a gate record only as the commit of one request, writing one
\* of that request's two records, to that request's now
OnlyOwnRecordsChange ==
    \A key \in GateKeys :
        RecordChanged(key) =>
            \E r \in Req :
                /\ running = r
                /\ Went(r, "DeliveryOk")
                /\ key \in {DedupeRecordOf(r), SuppressionRecordOf(r)}
                /\ storage'[key] = req[r].nowSec
                /\ \A other \in GateKeys \ {key} : ~RecordChanged(other)

\* with suppression_window_sec = 0 the events of one camera are gated per event
\* type: one is never suppressed by the suppression window, and by the dedupe
\* window only on a record that an event of its own type has written
GatedPerEventType ==
    \A r \in Req :
        Done(r) /\ Went(r, "PolicyResolved") /\ req[r].zone.suppression_window_sec = 0 =>
            /\ ~Suppressed(r, "suppression_window")
            /\ Suppressed(r, "dedupe_window") =>
                   \E other \in Req \ {r} :
                       /\ req[other].payload.event_type = req[r].payload.event_type
                       /\ WroteKey(other, DedupeRecordOf(r))

\* C29: a sent event of (z, c, e) sets the two records dedupe(z, c, e) and
\* suppression(z, c) to its own now and no step of it changes another record;
\* with suppression_window_sec = 0 an event of another type from the same camera
\* is not blocked by the dedupe record of e.
C29_SentSetsExactlyTwoRecords ==
    [](SentSetsItsTwoRecords /\ GatedPerEventType) /\ [][OnlyOwnRecordsChange]_vars

\* with suppression_window_sec = 0, an intrusion and then a line crossing of the
\* same camera in the same second, both sent, the second one over the
\* suppression record of the first
C29_Witness ==
    /\ Sent(1)
    /\ Sent(2)
    /\ req[1].zone.suppression_window_sec = 0
    /\ req[1].zone.dedupe_window_sec > 0
    /\ SuppressionRecordOf(1) = SuppressionRecordOf(2)
    /\ req[1].payload.event_type # req[2].payload.event_type
    /\ req[2].seen.hadSuppress
    /\ req[2].nowSec = req[1].nowSec
    /\ Cardinality({k \in GateKeys \cap DOMAIN storage : storage[k] = req[1].nowSec}) = 3

(***************************************************************************)
(* C30: the instant stored under a gate key.                               *)
(***************************************************************************)
\* no step removes a gate record or replaces it by an earlier instant
RecordsOnlyAdvance ==
    \A key \in GateKeys :
        Has(storage, key) => Has(storage', key) /\ storage'[key] >= storage[key]

\* C30: the instant stored under a gate key never decreases, however the
\* requests interleave.
C30_GateRecordsNeverDecrease == [][RecordsOnlyAdvance]_vars

\* the same for requests that do not share a dedupe key: a step of a request
\* whose events are all of different types
C30_DecreaseAcrossEventTypes ==
    [][(\A r1, r2 \in Req : r1 # r2 => DedupeRecordOf(r1) # DedupeRecordOf(r2))
          => RecordsOnlyAdvance]_vars

(***************************************************************************)
(* C31: the suppression record against the dedupe records of its camera.   *)
(***************************************************************************)
\* a request is between the success counter and its second put (index.ts:403-405)
CommitInProgress == \E r \in Req : req[r].pc \in {"put_dedupe", "put_suppress"}

DedupeRecord(zone_id, camera_id, event_type) ==
    "dedupe:" \o zone_id \o ":" \o camera_id \o ":" \o event_type

SuppressionRecord(zone_id, camera_id) == "suppress:" \o zone_id \o ":" \o camera_id

\* C31: whenever no commit is in progress, each dedupe record of a (zone,
\* camera, event type) comes with the suppression record of the (zone, camera),
\* and that one holds an instant at least as late.
C31_SuppressionNotOlderThanDedupe ==
    ~CommitInProgress =>
        \A i \in DOMAIN zonesCache.zones :
            \A camera_id \in Range(zonesCache.zones[i].camera_ids) :
                \A event_type \in EVENT_TYPES :
                    LET zone_id == zonesCache.zones[i].zone_id
                        dk      == DedupeRecord(zone_id, camera_id, event_type)
                        sk      == SuppressionRecord(zone_id, camera_id)
                    IN  Has(storage, dk) =>
                            Has(storage, sk) /\ storage[sk] >= storage[dk]

(***************************************************************************)
(* C32: the counters after the requests have completed.                    *)
(***************************************************************************)
\* no request is in flight: each was answered or has not arrived
Completed == \A r \in Req : req[r].pc \in {"idle", "done"}

Count(S) == Cardinality(S)

\* C32: once the requests have completed, however they interleaved,
\* events_received of a vendor and event type is the number of well-formed
\* events of that vendor and type, each events_suppressed counter the number of
\* events suppressed with its reason, alerts_sent success the number of sent
\* events and alerts_sent failed the number of failed ones.
C32_CountersLoseNoIncrement ==
    Completed =>
        /\ \A vendor \in VENDORS, eventType \in EVENT_TYPES :
               GetOrZero(storage, METRIC_EVENTS_RECEIVED \o vendor \o ":" \o eventType)
                   = Count({r \in Req :
                               /\ Done(r)
                               /\ validateEvent(req[r].payload)
                               /\ req[r].payload.vendor = vendor
                               /\ req[r].payload.event_type = eventType})
        /\ \A reason \in {"outside_active_schedule", "dedupe_window",
                          "suppression_window"} :
               GetOrZero(storage, METRIC_EVENTS_SUPPRESSED \o reason)
                   = Count({r \in Req : Suppressed(r, reason)})
        /\ GetOrZero(storage, METRIC_ALERTS_SENT \o "success")
               = Count({r \in Req : Sent(r)})
        /\ GetOrZero(storage, METRIC_ALERTS_SENT \o "failed")
               = Count({r \in Req : Done(r) /\ Status(r) = "failed"})

\* two events of one key that waited for Pushover at the same time, one sent and
\* one failed, each counted
C32_Witness ==
    /\ Completed
    /\ Sent(1)
    /\ Done(2)
    /\ Status(2) = "failed"
    /\ req[2].payload = req[1].payload
    /\ req[2].nowSec = req[1].nowSec
    /\ req[1].zone.dedupe_window_sec > 0
    /\ storage[METRIC_EVENTS_RECEIVED \o "intelbras:intrusion"] = 2
    /\ storage[METRIC_ALERTS_SENT \o "success"] = 1
    /\ storage[METRIC_ALERTS_SENT \o "failed"] = 1

====
